---- MODULE Spec2Model ----
(***************************************************************************)
(* lanmon: the persistent host registry (internal/store) and the query     *)
(* surface on top of it (internal/rpc).                                    *)
(*                                                                         *)
(* The registry is one bbolt bucket "hosts": key = MAC address string,     *)
(* value = the JSON encoding of a HostRecord.  Every method of Store takes *)
(* s.mu and runs one bbolt transaction, so each method is one atomic step  *)
(* of the model.  Times are wall-clock instants (integers): a time.Time    *)
(* read back from JSON carries no monotonic reading, so every comparison   *)
(* the store makes is a wall-clock comparison.                             *)
(***************************************************************************)
EXTENDS Integers, Sequences, FiniteSets, TLC

\* ---------------------------------------------------------------- bounds
MaxClock == 1
MaxPackets == 3
MaxTicks == 3

\* ---------------------------------------------------------------- inputs
MAC1 == "aa:bb:cc:dd:ee:01"
MAC2 == "aa:bb:cc:dd:ee:02"
IP1 == "192.168.1.1"
IP2 == "192.168.1.2"

\* MAC strings that callers pass; the empty string is a legal Go string.
MACs == {"", MAC1, MAC2}
IPs == {IP1, IP2}

\* Every byte string that can be used as a bucket key in this model, in
\* the bytewise order in which bbolt iterates a bucket.
KeyOrder == <<"", IP1, IP2, MAC1, MAC2>>
Keys == {KeyOrder[i] : i \in 1..Len(KeyOrder)}

\* BeaconPayload, reduced to the fields the registry and its callers read.
\* MemoryGB is a float64: "NaN" stands for a value encoding/json rejects.
Payload(mac, ip, hostname, mem) ==
  [MACAddress |-> mac, IPAddress |-> ip, Hostname |-> hostname,
   MemoryGB |-> mem]

\* The announces that reach the registry: one host that re-announces with
\* a changed IP address or a changed hostname, a second host, a payload
\* with an empty MAC, and one whose MemoryGB cannot be marshalled.
Payloads ==
  { Payload(MAC1, IP1, "host-a", "16.0"),
    Payload(MAC1, IP2, "host-a", "16.0"),
    Payload(MAC1, IP1, "host-b", "16.0"),
    Payload(MAC2, IP2, "host-c", "16.0"),
    Payload("", IP1, "host-a", "16.0"),
    Payload(MAC2, IP2, "host-c", "NaN") }

NoPayload ==
  [MACAddress |-> "", IPAddress |-> "", Hostname |-> "", MemoryGB |-> "0"]

\* time.Duration thresholds handed to expireStaleHosts; ParseDuration and
\* the test accept zero and negative values as well.
Thresholds == {-1, 0, 1}

\* nil / &t for SSHKeyPushedAt (*time.Time)
NilTime == <<>>
PtrTo(t) == <<t>>

\* ------------------------------------------------------------ HostRecord
\* The zero value of HostRecord (var record HostRecord).
ZeroRecord ==
  [Beacon |-> NoPayload, FirstSeen |-> 0, LastSeen |-> 0, PacketCount |-> 0,
   SSHKeyPushed |-> FALSE, SSHKeyPushedAt |-> NilTime, Active |-> FALSE]

\* What the bucket holds under a key: nothing, or bytes.
Absent == [kind |-> "absent"]
MarshalError == [kind |-> "error"]

\* json.Marshal(record): the struct tags name the JSON members; a nil
\* SSHKeyPushedAt is omitted (omitempty); a NaN float makes Marshal fail.
Marshal(record) ==
  IF record.Beacon.MemoryGB = "NaN" THEN MarshalError
  ELSE [kind |-> "json",
        beacon |-> record.Beacon,
        first_seen |-> record.FirstSeen,
        last_seen |-> record.LastSeen,
        packet_count |-> record.PacketCount,
        ssh_key_pushed |-> record.SSHKeyPushed,
        ssh_key_pushed_at |-> record.SSHKeyPushedAt,
        active |-> record.Active]

\* json.Unmarshal(bytes, &record) into a zero record: ok is FALSE for bytes
\* that are not a JSON object of this shape, and record is then left zero.
Unmarshal(bytes) ==
  IF bytes.kind = "json"
  THEN [ok |-> TRUE,
        record |-> [Beacon |-> bytes.beacon,
                    FirstSeen |-> bytes.first_seen,
                    LastSeen |-> bytes.last_seen,
                    PacketCount |-> bytes.packet_count,
                    SSHKeyPushed |-> bytes.ssh_key_pushed,
                    SSHKeyPushedAt |-> bytes.ssh_key_pushed_at,
                    Active |-> bytes.active]]
  ELSE [ok |-> FALSE, record |-> ZeroRecord]

\* ----------------------------------------------------------------- state
VARIABLES
  db,       \* the "hosts" bucket: key -> Absent or marshalled HostRecord
  clock,    \* the wall clock read by time.Now()
  upserts,  \* history: number of Upsert calls per MAC that returned nil
  lastOp,   \* history: the operation performed by the last step
  ret,      \* the []HostRecord returned by the last GetAll / GetActive
  reply,    \* the RPC reply and error of the last Service call
  hm,       \* a sign / tamper / verify exchange over internal/beacon/hmac.go
  sock,     \* the node's UDP socket: datagrams received and not yet read
  handler,  \* the handlePacket goroutines spawned and not yet run
  hostsFile, \* the managed section of /etc/hosts
  handed,   \* history: datagrams per source IP handed to a handler
  verdict,  \* history: the datagram the last step handled, and its fate
  mu,       \* Store.mu: the goroutine that holds it, or ""
  pc,       \* where each goroutine calling into the Store stands
  tx,       \* the bbolt transaction each goroutine has computed
  shadow,   \* history: the bucket had every call run alone, in lock order
  outcome,  \* history: the error each finished call returned
  run,      \* node.Run: its position, its configuration, what it holds
  ann,      \* the announce loop of StartNode: its ticker and its attempts
  fr,       \* one evaluation of the freshness check
  tracker,  \* the rateTracker of the legacy listener: counts, resetTime
  intake,   \* history: what the legacy listener did with the last datagram
  readers,  \* where each goroutine reading the Store stands
  upsertErrs, \* history: Upserts of accepted datagrams that returned an error
  bc,       \* one computation of the announce target from a CIDR
  syncers,  \* where each handler stands in its hosts.Sync
  buf       \* the receive buffer of listen: the bytes written into it

\* The variables of the registry, of the HMAC exchange and of the
\* discovery engine, and for each component the variables of the others.
registryVars == <<db, clock, upserts, lastOp, ret, reply>>
nodeVars == <<sock, handler, hostsFile, handed, verdict>>
concVars == <<mu, pc, tx, shadow, outcome>>
lastVars == <<bc, syncers, buf>>
laterVars == <<ann, fr, tracker, intake, readers, upsertErrs, lastVars>>
otherVars == <<hm, nodeVars, concVars, run, laterVars>>
nonHmacVars == <<registryVars, nodeVars, concVars, run, laterVars>>
nonNodeVars == <<hm, concVars, run, laterVars>>
nonConcVars == <<hm, nodeVars, run, laterVars>>

vars == <<db, clock, upserts, lastOp, ret, reply, hm, sock, handler,
          hostsFile, handed, verdict, mu, pc, tx, shadow, outcome, run,
          ann, fr, tracker, intake, readers, upsertErrs, bc, syncers, buf>>

\* bucket.Put(key, data): bbolt refuses an empty key.
BucketPut(bucket, key, data) ==
  IF key = "" THEN [db |-> bucket, err |-> "key required"]
  ELSE [db |-> [bucket EXCEPT ![key] = data], err |-> "nil"]

\* db.Update(fn): the transaction commits only if fn returned nil and the
\* commit itself did not fail (I/O error, database closed); otherwise it
\* is rolled back and the error is returned.
DbUpdate(bucket, res, fault) ==
  IF fault THEN [db |-> bucket, err |-> "storage"]
  ELSE IF res.err # "nil" THEN [db |-> bucket, err |-> res.err]
  ELSE res

\* --------------------------------------------------------------- Upsert
\* The else branch of Upsert: a record for a MAC that has no entry.
NewRecord(payload, now) ==
  [Beacon |-> payload, FirstSeen |-> now, LastSeen |-> now,
   PacketCount |-> 1, SSHKeyPushed |-> FALSE, SSHKeyPushedAt |-> NilTime,
   Active |-> TRUE]

\* Variants of UpdateRecord with a plausible slip: no increment, a record
\* started over when it was Inactive, FirstSeen refreshed, the key-push
\* fields not carried over.
UpdateRecord_NoIncrement(record, payload, now) ==
  [record EXCEPT !.Beacon = payload, !.LastSeen = now, !.Active = TRUE]

UpdateRecord_RestartsInactive(record, payload, now) ==
  IF record.Active
  THEN [record EXCEPT !.Beacon = payload, !.LastSeen = now,
                      !.PacketCount = @ + 1, !.Active = TRUE]
  ELSE [record EXCEPT !.Beacon = payload, !.LastSeen = now,
                      !.FirstSeen = now, !.PacketCount = 1, !.Active = TRUE]

UpdateRecord_RefreshesFirstSeen(record, payload, now) ==
  [record EXCEPT !.Beacon = payload, !.LastSeen = now, !.FirstSeen = now,
                 !.PacketCount = @ + 1, !.Active = TRUE]

UpdateRecord_DropsKeyPushed(record, payload, now) ==
  [Beacon |-> payload, FirstSeen |-> record.FirstSeen, LastSeen |-> now,
   PacketCount |-> record.PacketCount + 1, SSHKeyPushed |-> FALSE,
   SSHKeyPushedAt |-> NilTime, Active |-> TRUE]

\* The then branch of Upsert: the unmarshalled record, refreshed.
UpdateRecord(record, payload, now) ==
  [record EXCEPT !.Beacon = payload, !.LastSeen = now,
                 !.PacketCount = @ + 1, !.Active = TRUE]

\* Variant of UpsertKey: records keyed by IP address.
UpsertKey_ByIP(payload) == payload.IPAddress

\* The key Upsert stores a payload under.
UpsertKey(payload) == payload.MACAddress

\* The body of the transaction in Upsert.
UpsertTx(bucket, payload, now) ==
  LET key == UpsertKey(payload)
      existing == bucket[key]
      record == IF existing # Absent
                THEN UpdateRecord(Unmarshal(existing).record, payload, now)
                ELSE NewRecord(payload, now)
      data == Marshal(record)
  IN IF data = MarshalError
     THEN [db |-> bucket, err |-> "marshal"]
     ELSE BucketPut(bucket, key, data)

\* The description of a step: the method, its MAC argument (or the MAC of
\* its payload), its threshold argument, and the error it returned.
\* before is what the bucket held for that MAC when the step began.
Op(name, mac, before, threshold, err) ==
  [op |-> name, mac |-> mac, before |-> before, threshold |-> threshold,
   err |-> err]

EntryState(bucket, key) ==
  IF bucket[key] = Absent THEN "absent"
  ELSE IF Unmarshal(bucket[key]).record.Active THEN "active"
  ELSE "inactive"

NoReply == [Success |-> FALSE, Hosts |-> <<>>, Error |-> "none"]

RECURSIVE SumOver(_, _)
SumOver(f, S) ==
  IF S = {} THEN 0
  ELSE LET x == CHOOSE y \in S : TRUE IN f[x] + SumOver(f, S \ {x})

\* The number of Upsert calls that have returned nil so far.
TotalUpserts == SumOver(upserts, MACs)

Upsert(payload, fault) ==
  LET res == DbUpdate(db, UpsertTx(db, payload, clock), fault)
      mac == payload.MACAddress
  IN /\ TotalUpserts < MaxPackets
     /\ db' = res.db
     /\ upserts' = IF res.err = "nil"
                   THEN [upserts EXCEPT ![mac] = @ + 1] ELSE upserts
     /\ lastOp' = Op("Upsert", mac, EntryState(db, mac), 0, res.err)
     /\ ret' = <<>>
     /\ reply' = NoReply
     /\ UNCHANGED clock

\* -------------------------------------------------------- MarkKeyPushed
\* Variant of PushedRecord: the flag without the timestamp.
PushedRecord_NoTimestamp(record, now) ==
  [record EXCEPT !.SSHKeyPushed = TRUE]

\* Variant of PushedRecord: the record is marked Active as well.
PushedRecord_Reactivates(record, now) ==
  [record EXCEPT !.SSHKeyPushed = TRUE, !.SSHKeyPushedAt = PtrTo(now),
                 !.Active = TRUE]

\* The record MarkKeyPushed writes back.
PushedRecord(record, now) ==
  [record EXCEPT !.SSHKeyPushed = TRUE, !.SSHKeyPushedAt = PtrTo(now)]

\* Variant of MarkKeyPushedTx: an unknown MAC gets a fresh record.
MarkKeyPushedTx_CreatesRecord(bucket, mac, now) ==
  LET existing == bucket[mac]
      record == IF existing = Absent THEN ZeroRecord
                ELSE Unmarshal(existing).record
  IN BucketPut(bucket, mac, Marshal(PushedRecord(record, now)))

\* The body of the transaction in MarkKeyPushed.
MarkKeyPushedTx(bucket, mac, now) ==
  LET existing == bucket[mac]
      u == Unmarshal(existing)
      data == Marshal(PushedRecord(u.record, now))
  IN IF existing = Absent THEN [db |-> bucket, err |-> "not found"]
     ELSE IF ~u.ok THEN [db |-> bucket, err |-> "unmarshal"]
     ELSE IF data = MarshalError THEN [db |-> bucket, err |-> "marshal"]
     ELSE BucketPut(bucket, mac, data)

\* Service.MarkKeyPushed: the RPC handler around Store.MarkKeyPushed.  A
\* non-nil error is sent as the response's error; reply.Success is set
\* only on the nil path.
ServiceMarkKeyPushedReply(err) ==
  IF err # "nil"
  THEN [Success |-> FALSE, Hosts |-> <<>>, Error |-> "marking key pushed"]
  ELSE [Success |-> TRUE, Hosts |-> <<>>, Error |-> "nil"]

ServiceMarkKeyPushed(mac, fault) ==
  LET res == DbUpdate(db, MarkKeyPushedTx(db, mac, clock), fault)
  IN /\ db' = res.db
     /\ lastOp' = Op("MarkKeyPushed", mac, EntryState(db, mac), 0, res.err)
     /\ reply' = ServiceMarkKeyPushedReply(res.err)
     /\ ret' = <<>>
     /\ UNCHANGED <<clock, upserts>>

\* ----------------------------------------------------- expireStaleHosts
\* Variant of Stale: every Active record, whatever its age.
Stale_IgnoresCutoff(record, cutoff) == record.Active

\* The condition under which the sweep deactivates a record.
Stale(record, cutoff) == record.Active /\ record.LastSeen < cutoff

\* Variant of ExpireEntry: the sweep also stamps the record it expires.
ExpireEntry_DeletesStale(bytes, cutoff) ==
  LET u == Unmarshal(bytes)
  IN IF bytes = Absent \/ ~u.ok THEN bytes
     ELSE IF Stale(u.record, cutoff) THEN Absent
          ELSE bytes

ExpireEntry_StampsRecord(bytes, cutoff) ==
  LET u == Unmarshal(bytes)
      data == Marshal([u.record EXCEPT !.Active = FALSE,
                                       !.LastSeen = cutoff])
  IN IF bytes = Absent \/ ~u.ok THEN bytes
     ELSE IF Stale(u.record, cutoff)
          THEN (IF data = MarshalError THEN bytes ELSE data)
          ELSE bytes

\* The callback of ForEach in expireStaleHosts, for one entry.
ExpireEntry(bytes, cutoff) ==
  LET u == Unmarshal(bytes)
      data == Marshal([u.record EXCEPT !.Active = FALSE])
  IN IF bytes = Absent \/ ~u.ok THEN bytes
     ELSE IF Stale(u.record, cutoff)
          THEN (IF data = MarshalError THEN bytes ELSE data)
          ELSE bytes

\* The body of the transaction in expireStaleHosts.  ForEach visits every
\* entry of the bucket once; the Put replaces the value under the key that
\* is being visited, which is an existing non-empty key.
ExpireTx(bucket, threshold, now) ==
  LET cutoff == now - threshold
  IN [db |-> [k \in Keys |-> ExpireEntry(bucket[k], cutoff)], err |-> "nil"]

\* One run of the sweep (a tick of RunExpiry, or a direct call).
ExpireStaleHosts(threshold, fault) ==
  LET res == DbUpdate(db, ExpireTx(db, threshold, clock), fault)
  IN /\ db' = res.db
     /\ lastOp' = Op("expireStaleHosts", "", "-", threshold, res.err)
     /\ ret' = <<>>
     /\ reply' = NoReply
     /\ UNCHANGED <<clock, upserts>>

\* ------------------------------------------------------ GetAll/GetActive
RECURSIVE ForEachRecord(_, _)
\* The scan of GetAll over the keys from position i on, in key order:
\* entries that do not unmarshal are skipped.
ForEachRecord(bucket, i) ==
  IF i > Len(KeyOrder) THEN <<>>
  ELSE LET bytes == bucket[KeyOrder[i]]
           u == Unmarshal(bytes)
       IN IF bytes = Absent \/ ~u.ok THEN ForEachRecord(bucket, i + 1)
          ELSE <<u.record>> \o ForEachRecord(bucket, i + 1)

\* Store.GetAll: (records, err).
StoreGetAll(bucket, fault) ==
  IF fault THEN [records |-> <<>>, err |-> "storage"]
  ELSE [records |-> ForEachRecord(bucket, 1), err |-> "nil"]

\* Variant of KeepActive: no filtering.
KeepActive_All(r) == TRUE

\* The filter GetActive applies to one record of GetAll's result.
KeepActive(r) == r.Active

\* Store.GetActive: (active, err).
StoreGetActive(bucket, fault) ==
  LET all == StoreGetAll(bucket, fault)
  IN IF all.err # "nil" THEN [records |-> <<>>, err |-> all.err]
     ELSE [records |-> SelectSeq(all.records, KeepActive), err |-> "nil"]

GetAll(fault) ==
  LET res == StoreGetAll(db, fault)
  IN /\ ret' = res.records
     /\ lastOp' = Op("GetAll", "", "-", 0, res.err)
     /\ reply' = NoReply
     /\ UNCHANGED <<db, clock, upserts>>

\* Service.ListActiveHosts: the RPC handler around Store.GetActive.
ServiceListActiveHosts(fault) ==
  LET res == StoreGetActive(db, fault)
  IN /\ ret' = res.records
     /\ lastOp' = Op("GetActive", "", "-", 0, res.err)
     /\ reply' = IF res.err # "nil"
                 THEN [Success |-> FALSE, Hosts |-> <<>>,
                       Error |-> "fetching active hosts"]
                 ELSE [Success |-> FALSE, Hosts |-> res.records,
                       Error |-> "nil"]
     /\ UNCHANGED <<db, clock, upserts>>

\* ---------------------------------------------------------------- engine
\* What a component that is not running leaves in the engine's variables.
NoVerdict == [why |-> "none"]
NoHostsFile == [managed |-> FALSE, entries |-> <<>>]

NodeIdle ==
  /\ sock = <<>>
  /\ handler = <<>>
  /\ hostsFile = NoHostsFile
  /\ handed = [ip \in IPs |-> 0]
  /\ verdict = NoVerdict

\* The goroutines that call into one Store at the same time: two
\* handlePacket goroutines, an RPC connection, the expiry goroutine.
Workers == {"handler-1", "handler-2", "rpc", "expiry"}

EmptyBucket == [k \in Keys |-> Absent]
NoTx == [base |-> EmptyBucket, res |-> [db |-> EmptyBucket, err |-> "nil"]]

ConcIdle ==
  /\ mu = ""
  /\ pc = [w \in Workers |-> "idle"]
  /\ tx = [w \in Workers |-> NoTx]
  /\ shadow = EmptyBucket
  /\ outcome = [w \in Workers |-> "-"]

\* node.Run not started.
RunIdle ==
  [pc |-> "idle", cfg |-> <<>>, storeOpen |-> FALSE, deferClose |-> FALSE,
   connOpen |-> FALSE, rpcOpen |-> FALSE, sockFile |-> FALSE,
   expiry |-> FALSE, engine |-> "idle", errCh |-> "", err |-> ""]

\* The goroutines that read the Store at the same time (GetAll from an
\* RPC connection and from hosts.Sync).
Readers == {"query-1", "query-2"}

AnnIdle ==
  [pc |-> "idle", tick |-> FALSE, fired |-> 0, consumed |-> 0,
   attempts |-> 0, failed |-> 0, lastOk |-> FALSE]
FrIdle == [phase |-> "idle", now |-> 0, t |-> 0, rejected |-> FALSE]
TrackerIdle == [counts |-> [ip \in IPs |-> 0], resetTime |-> 0]
NoIntake ==
  [now |-> 0, src |-> "", prev |-> [ip \in IPs |-> 0], reset |-> FALSE,
   dropped |-> FALSE]
ReadersIdle ==
  [r \in Readers |-> [pc |-> "idle", records |-> <<>>, err |-> "-"]]

\* The handlers that run hosts.Sync at the same time.
Syncers == {"handler-1", "handler-2"}

BcIdle == [phase |-> "idle", ip |-> <<>>, ones |-> 0, target |-> <<>>]
SyncersIdle == [h \in Syncers |-> [pc |-> "idle", records |-> <<>>]]
NoBuf == <<>>

LastIdle ==
  /\ bc = BcIdle
  /\ syncers = SyncersIdle
  /\ buf = NoBuf

\* The components settled after the five above, none of them running.
LaterIdle ==
  /\ ann = AnnIdle
  /\ fr = FrIdle
  /\ tracker = TrackerIdle
  /\ intake = NoIntake
  /\ readers = ReadersIdle
  /\ upsertErrs = 0
  /\ LastIdle

\* ----------------------------------------------------------------- HMAC
\* beacon.HMACSize, and the block size of SHA-256 that crypto/hmac pads
\* or hashes the key to.
HMACSize == 32
BlockSize == 64

\* Secrets are strings, here sequences of characters of a small alphabet:
\* two hex digits that differ only in case, the hex digit 0, and a
\* character that is no hex digit.
MaxSecretLen == 2
MaxKeySecretLen == 3
IntBits == 8
MaxRateClock == 3
MaxUpsertErrs == 1
MaxOver == 2
Chars == {"a", "A", "0", "z"}

RECURSIVE StringsUpTo(_)
StringsUpTo(n) ==
  IF n = 0 THEN {<<>>}
  ELSE StringsUpTo(n - 1)
       \cup {Append(s, c) : s \in {t \in StringsUpTo(n - 1) : Len(t) = n - 1},
                            c \in Chars}

Secrets == StringsUpTo(MaxSecretLen)

\* fromHexChar of encoding/hex: the value of a hex digit, -1 for any other
\* character.
FromHexChar(c) ==
  CASE c = "0" -> 0
    [] c = "a" -> 10
    [] c = "A" -> 10
    [] OTHER -> -1

\* []byte(secret): the character's byte.
ByteOf(c) ==
  CASE c = "0" -> 48
    [] c = "A" -> 65
    [] c = "a" -> 97
    [] OTHER -> 122

RawBytes(s) == [i \in 1..Len(s) |-> ByteOf(s[i])]

RECURSIVE HexDecodeFrom(_, _)
\* hex.DecodeString(s), from pair i on: the bytes decoded before the first
\* invalid character or before the odd character at the end.  The error it
\* returns next to them is the one ComputeHMAC discards.
HexDecodeFrom(s, i) ==
  IF 2 * i > Len(s) THEN <<>>
  ELSE LET a == FromHexChar(s[2 * i - 1])
           b == FromHexChar(s[2 * i])
       IN IF a < 0 \/ b < 0 THEN <<>>
          ELSE <<16 * a + b>> \o HexDecodeFrom(s, i + 1)

HexDecodeString(s) == HexDecodeFrom(s, 1)

\* The key ComputeHMAC hands to hmac.New: the decoded bytes, and the raw
\* bytes of the secret only when no byte was decoded.
HMACKey(secret) ==
  LET key == HexDecodeString(secret)
  IN IF Len(key) = 0 THEN RawBytes(secret) ELSE key

\* hmac.New: a key longer than the block is replaced by its digest (here
\* the symbolic digest of the key), and the key is padded with zero bytes
\* to the block size.
PadKey(key) ==
  LET k == IF Len(key) > BlockSize THEN <<-1>> \o key ELSE key
  IN IF Len(k) >= BlockSize THEN k
     ELSE k \o [i \in 1..(BlockSize - Len(k)) |-> 0]

\* A byte of data: an opaque value n, x set once a bit of it was flipped.
DataByte(n) == [t |-> "byte", s |-> "", n |-> n, x |-> FALSE]

\* Byte i of the body of a string field.
StrByte(i) == [t |-> "str", s |-> "", n |-> i, x |-> FALSE]

\* The data a digest was computed over, written short: the bytes before
\* a closing run StrByte(1), StrByte(2), ... and the length of that run.
\* Different data have different names.
Named(data) ==
  LET runs == {h \in 0..(Len(data) - 1) :
                 /\ data[h + 1] = StrByte(1)
                 /\ \A i \in (h + 2)..Len(data) : data[i] = StrByte(i - h)}
      h == IF runs = {} THEN Len(data) ELSE CHOOSE r \in runs : TRUE
  IN [head |-> SubSeq(data, 1, h), run |-> Len(data) - h]

\* Variant of HmacSum: a digest of the data alone.
HmacSum_Unkeyed(key, data) ==
  LET named == Named(data)
  IN [i \in 1..HMACSize |->
        [t |-> "hmac", s |-> "", n |-> i, x |-> FALSE,
         key |-> PadKey(<<>>), data |-> named]]

\* HMAC-SHA256 as an ideal keyed function: byte i of the 32-byte digest
\* names the padded key and the data it was computed over, so two digests
\* agree in a byte only if they were computed from the same key and data.
HmacSum(key, data) ==
  LET padded == PadKey(key)
      named == Named(data)
  IN [i \in 1..HMACSize |->
        [t |-> "hmac", s |-> "", n |-> i, x |-> FALSE,
         key |-> padded, data |-> named]]

\* beacon.ComputeHMAC
ComputeHMAC(data, secret) == HmacSum(HMACKey(secret), data)

RECURSIVE XorAcc(_, _, _)
\* The loop of subtle.ConstantTimeCompare: TRUE iff some byte pair from
\* position i on differs.
XorAcc(x, y, i) ==
  IF i > Len(x) THEN FALSE
  ELSE LET rest == XorAcc(x, y, i + 1)
       IN (x[i] # y[i]) \/ rest

\* Variant of HmacEqual: compares as many bytes as the signature has.
HmacEqual_Prefix(sig, expected) ==
  Len(sig) <= Len(expected) /\ ~XorAcc(sig, expected, 1)

\* hmac.Equal: slices of different length are unequal; otherwise every
\* byte pair is compared.
HmacEqual(sig, expected) ==
  Len(sig) = Len(expected) /\ ~XorAcc(sig, expected, 1)

\* beacon.VerifyHMAC
VerifyHMAC(sig, data, secret) ==
  HmacEqual(sig, ComputeHMAC(data, secret))

\* One bit of byte i of a byte string flipped.
FlipBit(bytes, i) == [bytes EXCEPT ![i].x = ~@]

\* The byte strings signed and verified in the exchange below.
HmData == {<<DataByte(1)>>, <<DataByte(1), DataByte(2)>>}

\* What is done to a signature between signing and verifying.
HmTampers == {"none", "flip-first", "flip-last", "truncate-16", "truncate-31"}

Tampered(sig, how) ==
  CASE how = "none" -> sig
    [] how = "flip-first" -> FlipBit(sig, 1)
    [] how = "flip-last" -> FlipBit(sig, HMACSize)
    [] how = "truncate-16" -> SubSeq(sig, 1, 16)
    [] how = "truncate-31" -> SubSeq(sig, 1, HMACSize - 1)

HmIdle ==
  [phase |-> "idle", secret |-> <<>>, key |-> <<>>, data |-> <<>>,
   tamper |-> "none", sig |-> <<>>, vsecret |-> <<>>, vdata |-> <<>>,
   ok |-> FALSE]

\* sig := ComputeHMAC(data, secret)
HmSign(secret, data) ==
  /\ hm.phase = "idle"
  /\ hm' = [HmIdle EXCEPT !.phase = "signed", !.secret = secret,
                          !.key = HMACKey(secret),
                          !.data = data, !.sig = ComputeHMAC(data, secret)]
  /\ UNCHANGED nonHmacVars

\* The signature is altered on its way.
HmTamper(how) ==
  /\ hm.phase = "signed"
  /\ how # "none"
  /\ hm' = [hm EXCEPT !.phase = "tampered", !.tamper = how,
                      !.sig = Tampered(hm.sig, how)]
  /\ UNCHANGED nonHmacVars

\* ok := VerifyHMAC(sig, vdata, vsecret)
HmVerify(vsecret, vdata) ==
  /\ hm.phase \in {"signed", "tampered"}
  /\ hm' = [hm EXCEPT !.phase = "verified", !.vsecret = vsecret,
                      !.vdata = vdata,
                      !.ok = VerifyHMAC(hm.sig, vdata, vsecret)]
  /\ UNCHANGED nonHmacVars

\* The registry as store.New leaves it, with no call made yet.
RegistryIdle ==
  /\ db = [k \in Keys |-> Absent]
  /\ clock = 0
  /\ upserts = [m \in MACs |-> 0]
  /\ lastOp = Op("New", "", "-", 0, "nil")
  /\ ret = <<>>
  /\ reply = NoReply

HmInit ==
  /\ RegistryIdle
  /\ hm = HmIdle
  /\ NodeIdle
  /\ ConcIdle
  /\ run = RunIdle
  /\ LaterIdle

HmNext ==
  \/ \E s \in Secrets, d \in HmData : HmSign(s, d)
  \/ \E how \in HmTampers : HmTamper(how)
  \/ \E s \in Secrets, d \in HmData : HmVerify(s, d)

SpecHMAC == HmInit /\ [][HmNext]_vars

\* The first lines of ComputeHMAC alone, on every secret of up to
\* MaxKeySecretLen characters: the key handed to hmac.New.
HmDeriveKey ==
  /\ hm.phase = "secret"
  /\ hm' = [hm EXCEPT !.phase = "keyed", !.key = HMACKey(hm.secret)]
  /\ UNCHANGED nonHmacVars

KeyInit ==
  /\ RegistryIdle
  /\ NodeIdle
  /\ ConcIdle
  /\ run = RunIdle
  /\ LaterIdle
  /\ \E s \in StringsUpTo(MaxKeySecretLen) :
       hm = [HmIdle EXCEPT !.phase = "secret", !.secret = s]

KeyNext == HmDeriveKey

SpecKey == KeyInit /\ [][KeyNext]_vars

\* ------------------------------------------------------------- discovery
\* timestampMaxAge, in seconds.
timestampMaxAge == 60

\* The wire form of BeaconPayload: the fields of Payload, the format
\* version, the sender's time.Now().Unix(), and of the metadata strings
\* Hardware.CPUModel, kept as its length in bytes.
Beacon(mac, ip, hostname, mem, ts) ==
  [Version |-> 1, Timestamp |-> ts, MACAddress |-> mac, IPAddress |-> ip,
   Hostname |-> hostname, MemoryGB |-> mem, CPUModel |-> 0]

NoBeacon == Beacon("", "", "", "0", 0)

\* msgpack.Marshal(payload): one unit per field, naming the field and
\* carrying its value; the unit of CPUModel carries the length of the
\* string and is followed by one unit per byte of it.
FieldOrder ==
  <<"Version", "Timestamp", "MACAddress", "IPAddress", "Hostname",
    "MemoryGB", "CPUModel">>

Unit(field, str, num) == [t |-> field, s |-> str, n |-> num, x |-> FALSE]

MsgpackMarshal(p) ==
  <<Unit("Version", "", p.Version),
    Unit("Timestamp", "", p.Timestamp),
    Unit("MACAddress", p.MACAddress, 0),
    Unit("IPAddress", p.IPAddress, 0),
    Unit("Hostname", p.Hostname, 0),
    Unit("MemoryGB", p.MemoryGB, 0),
    Unit("CPUModel", "", p.CPUModel)>>
  \o [i \in 1..p.CPUModel |-> Unit("str", "", i)]

\* Whether data is the whole encoding of a payload: every field in its
\* place and intact, and as many string bytes as the CPUModel unit says.
WellFormed(data) ==
  /\ Len(data) >= Len(FieldOrder)
  /\ \A i \in 1..Len(FieldOrder) : data[i].t = FieldOrder[i] /\ ~data[i].x
  /\ Len(data) = Len(FieldOrder) + data[Len(FieldOrder)].n
  /\ \A i \in (Len(FieldOrder) + 1)..Len(data) :
       data[i] = Unit("str", "", i - Len(FieldOrder))

\* Variant of MsgpackUnmarshal: the hostname is not decoded.
MsgpackUnmarshal_DropsHostname(data) ==
  IF WellFormed(data)
  THEN [ok |-> TRUE,
        payload |-> [Version |-> data[1].n, Timestamp |-> data[2].n,
                     MACAddress |-> data[3].s, IPAddress |-> data[4].s,
                     Hostname |-> "", MemoryGB |-> data[6].s,
                     CPUModel |-> data[7].n]]
  ELSE [ok |-> FALSE, payload |-> NoBeacon]

\* msgpack.Unmarshal(data, &payload): an error for bytes that are not the
\* encoding of a BeaconPayload, the decoded fields otherwise.
MsgpackUnmarshal(data) ==
  IF WellFormed(data)
  THEN [ok |-> TRUE,
        payload |-> [Version |-> data[1].n, Timestamp |-> data[2].n,
                     MACAddress |-> data[3].s, IPAddress |-> data[4].s,
                     Hostname |-> data[5].s, MemoryGB |-> data[6].s,
                     CPUModel |-> data[7].n]]
  ELSE [ok |-> FALSE, payload |-> NoBeacon]

\* math.Abs
Abs(n) == IF n < 0 THEN -n ELSE n

\* int64 and float64, scaled: integers of IntBits bits in two's
\* complement stand for int64, and a float with MantBits bits of mantissa
\* stands for float64 (53 bits for 64).  timestampMaxAge fits the mantissa,
\* as 60 fits 53 bits.
MantBits == 6

RECURSIVE TwoTo(_)
TwoTo(n) == IF n = 0 THEN 1 ELSE 2 * TwoTo(n - 1)

MinInt == -TwoTo(IntBits - 1)
MaxInt == TwoTo(IntBits - 1) - 1
Ints == MinInt..MaxInt

\* now - payload.Timestamp on int64: the difference wraps around.
WrapSub(a, b) == ((a - b - MinInt) % TwoTo(IntBits)) + MinInt

RECURSIVE BitLen(_)
BitLen(m) == IF m = 0 THEN 0 ELSE 1 + BitLen(m \div 2)

\* float64(n): the nearest value with MantBits significant bits, ties to
\* the even mantissa.
ToFloat(n) ==
  LET m == Abs(n)
      step == IF BitLen(m) > MantBits THEN TwoTo(BitLen(m) - MantBits) ELSE 1
      q == m \div step
      r == m % step
      up == 2 * r > step \/ (2 * r = step /\ q % 2 = 1)
      mag == (IF up THEN q + 1 ELSE q) * step
  IN IF n < 0 THEN -mag ELSE mag

\* Variant of TooOld: only timestamps in the past are rejected.
TooOld_OneSided(now, ts) ==
  ToFloat(WrapSub(now, ts)) > timestampMaxAge

\* math.Abs(float64(now-payload.Timestamp)) > timestampMaxAge
TooOld(now, ts) ==
  Abs(ToFloat(WrapSub(now, ts))) > timestampMaxAge

\* Variants of Validate with a check missing.
Validate_NoSelfCheck(packet, selfMAC, secret, now) ==
  IF Len(packet) <= HMACSize THEN [why |-> "short", payload |-> NoBeacon]
  ELSE LET sig == SubSeq(packet, 1, HMACSize)
           data == SubSeq(packet, HMACSize + 1, Len(packet))
           u == MsgpackUnmarshal(data)
       IN IF ~VerifyHMAC(sig, data, secret)
          THEN [why |-> "hmac", payload |-> NoBeacon]
          ELSE IF ~u.ok THEN [why |-> "unmarshal", payload |-> NoBeacon]
          ELSE IF TooOld(now, u.payload.Timestamp)
          THEN [why |-> "stale", payload |-> u.payload]
          ELSE [why |-> "accepted", payload |-> u.payload]

Validate_NoSignature(packet, selfMAC, secret, now) ==
  IF Len(packet) <= HMACSize THEN [why |-> "short", payload |-> NoBeacon]
  ELSE LET data == SubSeq(packet, HMACSize + 1, Len(packet))
           u == MsgpackUnmarshal(data)
       IN IF ~u.ok THEN [why |-> "unmarshal", payload |-> NoBeacon]
          ELSE IF u.payload.MACAddress = selfMAC
          THEN [why |-> "self", payload |-> u.payload]
          ELSE IF TooOld(now, u.payload.Timestamp)
          THEN [why |-> "stale", payload |-> u.payload]
          ELSE [why |-> "accepted", payload |-> u.payload]

Validate_NoFreshness(packet, selfMAC, secret, now) ==
  IF Len(packet) <= HMACSize THEN [why |-> "short", payload |-> NoBeacon]
  ELSE LET sig == SubSeq(packet, 1, HMACSize)
           data == SubSeq(packet, HMACSize + 1, Len(packet))
           u == MsgpackUnmarshal(data)
       IN IF ~VerifyHMAC(sig, data, secret)
          THEN [why |-> "hmac", payload |-> NoBeacon]
          ELSE IF ~u.ok THEN [why |-> "unmarshal", payload |-> NoBeacon]
          ELSE IF u.payload.MACAddress = selfMAC
          THEN [why |-> "self", payload |-> u.payload]
          ELSE [why |-> "accepted", payload |-> u.payload]

\* The checks of handlePacket, in its order: length, signature, decoding,
\* own MAC, freshness.  why names the return taken.
Validate(packet, selfMAC, secret, now) ==
  IF Len(packet) <= HMACSize THEN [why |-> "short", payload |-> NoBeacon]
  ELSE LET sig == SubSeq(packet, 1, HMACSize)
           data == SubSeq(packet, HMACSize + 1, Len(packet))
           u == MsgpackUnmarshal(data)
       IN IF ~VerifyHMAC(sig, data, secret)
          THEN [why |-> "hmac", payload |-> NoBeacon]
          ELSE IF ~u.ok THEN [why |-> "unmarshal", payload |-> NoBeacon]
          ELSE IF u.payload.MACAddress = selfMAC
          THEN [why |-> "self", payload |-> u.payload]
          ELSE IF TooOld(now, u.payload.Timestamp)
          THEN [why |-> "stale", payload |-> u.payload]
          ELSE [why |-> "accepted", payload |-> u.payload]

\* The node under study: what sysinfo.Collect reports for its interface,
\* and its shared secret.
NodeSecret == <<"a", "z">>
OtherSecret == <<"z">>
SelfInfo ==
  [mac |-> MAC1, ip |-> IP1, hostname |-> "host-a", secret |-> NodeSecret,
   skew |-> 0, cpuModel |-> 0]

\* Peer clocks, in seconds ahead of the node's clock.
Skews == {-61, -60, 0, 60, 61}

\* The peers on the segment, each running the same broadcast duty: a
\* peer with the node's secret and a skewed clock, a peer with another
\* secret, and a host that announces the node's own MAC.
Peers ==
  {[mac |-> MAC2, ip |-> IP2, hostname |-> "host-c", secret |-> NodeSecret,
    skew |-> k, cpuModel |-> 0] : k \in Skews}
  \cup {[mac |-> MAC2, ip |-> IP2, hostname |-> "host-c",
         secret |-> OtherSecret, skew |-> 0, cpuModel |-> 0],
        [mac |-> MAC1, ip |-> IP2, hostname |-> "host-b",
         secret |-> NodeSecret, skew |-> 0, cpuModel |-> 0]}

\* A datagram in flight: source address and bytes.  origin and sent are
\* history: whether broadcast built it, and from which payload.
Datagram(src, bytes, origin, sent) ==
  [src |-> src, bytes |-> bytes, origin |-> origin, sent |-> sent]

\* The packet broadcast builds: append(hmacSig, data...).
BuildPacket(payload, secret) ==
  LET data == MsgpackMarshal(payload)
  IN ComputeHMAC(data, secret) \o data

\* broadcast, run by the node n at its own clock: collect, build, sign,
\* WriteToUDP to the broadcast address, which every socket bound on the
\* segment receives, the sender's own included.  With ok false one of
\* Collect, Marshal and WriteToUDP failed and nothing is sent.
Broadcast(n, ok) ==
  LET payload == [Beacon(n.mac, n.ip, n.hostname, "16.0", clock + n.skew)
                    EXCEPT !.CPUModel = n.cpuModel]
  IN /\ sock = <<>>
     /\ sock' = IF ok
                THEN <<Datagram(n.ip, BuildPacket(payload, n.secret),
                                "broadcast", payload)>>
                ELSE sock
     /\ lastOp' = Op("broadcast", n.mac, "-", 0, IF ok THEN "nil" ELSE "send")
     /\ verdict' = NoVerdict
     /\ UNCHANGED <<db, clock, upserts, ret, reply, handler, hostsFile>>

\* Datagrams that no broadcast built: only a signature, a broadcast with a
\* bit of its data flipped, signed bytes that are no payload.
Forgeries == {"short", "tampered", "garbage"}

Forged(kind, now) ==
  LET good == BuildPacket(Beacon(MAC2, IP2, "host-c", "16.0", now),
                          NodeSecret)
  IN CASE kind = "short" -> SubSeq(good, 1, HMACSize)
       [] kind = "tampered" -> FlipBit(good, HMACSize + 1)
       [] kind = "garbage" ->
            ComputeHMAC(<<DataByte(1)>>, NodeSecret) \o <<DataByte(1)>>

\* The network delivers a datagram of another origin to the socket.
Inject(kind) ==
  /\ sock = <<>>
  /\ sock' = <<Datagram(IP2, Forged(kind, clock), "injected", NoBeacon)>>
  /\ lastOp' = Op("inject", "", "-", 0, "nil")
  /\ verdict' = NoVerdict
  /\ UNCHANGED <<db, clock, upserts, ret, reply, handler, hostsFile>>

\* Variant of Listen: the loop handles the packet itself, and reads the
\* next datagram only when that is done.
Listen_WaitsForHandler ==
  /\ sock # <<>>
  /\ handler = <<>>
  /\ handler' = Append(handler, Head(sock))
  /\ sock' = Tail(sock)
  /\ lastOp' = Op("listen", "", "-", 0, "nil")
  /\ verdict' = NoVerdict
  /\ UNCHANGED <<db, clock, upserts, ret, reply, hostsFile>>

\* One iteration of listen: ReadFromUDP, copy the bytes, go handlePacket.
\* The loop does not wait for the goroutine it starts.
Listen ==
  /\ sock # <<>>
  /\ handler' = Append(handler, Head(sock))
  /\ sock' = Tail(sock)
  /\ lastOp' = Op("listen", "", "-", 0, "nil")
  /\ verdict' = NoVerdict
  /\ UNCHANGED <<db, clock, upserts, ret, reply, hostsFile>>

\* The datagrams counted for a source, up to one past the limit.
maxPacketsPerMin == 5
Counted(counts, src) ==
  [counts EXCEPT ![src] = IF @ > maxPacketsPerMin THEN @ ELSE @ + 1]

RECURSIVE ManagedLines(_, _)
\* The loop of hosts.Sync over the records of GetAll: one line per record
\* with a hostname and an IP address.
ManagedLines(records, i) ==
  IF i > Len(records) THEN <<>>
  ELSE LET h == records[i]
       IN IF h.Beacon.Hostname # "" /\ h.Beacon.IPAddress # ""
          THEN <<<<h.Beacon.IPAddress, h.Beacon.Hostname>>>>
               \o ManagedLines(records, i + 1)
          ELSE ManagedLines(records, i + 1)

\* hosts.Sync(db): the managed section is rewritten from GetAll; with
\* fault one of its steps failed (not root, GetAll, open, write) and the
\* file is left as it was.
HostsSync(file, bucket, fault) ==
  IF fault THEN file
  ELSE [managed |-> TRUE,
        entries |-> ManagedLines(StoreGetAll(bucket, FALSE).records, 1)]

\* Variant of HandlePacket: hosts.Sync runs whatever Upsert returned.
HandlePacket_SyncsAlways(i, fault, syncFault) ==
  /\ i \in 1..Len(handler)
  /\ LET d == handler[i]
         v == Validate(d.bytes, SelfInfo.mac, SelfInfo.secret, clock)
     IN /\ handler' = SubSeq(handler, 1, i - 1)
                      \o SubSeq(handler, i + 1, Len(handler))
        /\ verdict' = [why |-> v.why, d |-> d, now |-> clock,
                       payload |-> v.payload]
        /\ IF v.why = "accepted"
           THEN /\ Upsert(v.payload, fault)
                /\ hostsFile' = HostsSync(hostsFile, db', syncFault)
           ELSE /\ ~fault /\ ~syncFault
                /\ lastOp' = Op("handlePacket", v.payload.MACAddress, "-", 0,
                                v.why)
                /\ UNCHANGED <<db, clock, upserts, ret, reply, hostsFile>>
  /\ UNCHANGED sock

\* The i-th handlePacket goroutine, on the packet copy it was started
\* with: the checks, then db.Upsert, then hosts.Sync if Upsert returned nil.
HandlePacket(i, fault, syncFault) ==
  /\ i \in 1..Len(handler)
  /\ LET d == handler[i]
         v == Validate(d.bytes, SelfInfo.mac, SelfInfo.secret, clock)
     IN /\ handler' = SubSeq(handler, 1, i - 1)
                      \o SubSeq(handler, i + 1, Len(handler))
        /\ verdict' = [why |-> v.why, d |-> d, now |-> clock,
                       payload |-> v.payload]
        /\ IF v.why = "accepted"
           THEN /\ Upsert(v.payload, fault)
                /\ hostsFile' = IF lastOp'.err = "nil"
                                THEN HostsSync(hostsFile, db', syncFault)
                                ELSE hostsFile
           ELSE /\ ~fault /\ ~syncFault
                /\ lastOp' = Op("handlePacket", v.payload.MACAddress, "-", 0,
                                v.why)
                /\ UNCHANGED <<db, clock, upserts, ret, reply, hostsFile>>
  /\ UNCHANGED sock

\* ----------------------------------------------------------------- clock
Tick ==
  /\ clock < MaxClock
  /\ clock' = clock + 1
  /\ lastOp' = Op("Tick", "", "-", 0, "nil")
  /\ ret' = <<>>
  /\ reply' = NoReply
  /\ UNCHANGED <<db, upserts>>

Init ==
  /\ db = [k \in Keys |-> Absent]
  /\ clock = 0
  /\ upserts = [m \in MACs |-> 0]
  /\ lastOp = Op("New", "", "-", 0, "nil")
  /\ ret = <<>>
  /\ reply = NoReply
  /\ hm = HmIdle
  /\ NodeIdle
  /\ ConcIdle
  /\ run = RunIdle
  /\ LaterIdle

Next ==
  \/ \E p \in Payloads, fault \in BOOLEAN :
       Upsert(p, fault) /\ UNCHANGED otherVars
  \/ \E m \in MACs, fault \in BOOLEAN :
       ServiceMarkKeyPushed(m, fault) /\ UNCHANGED otherVars
  \/ \E t \in Thresholds, fault \in BOOLEAN :
       ExpireStaleHosts(t, fault) /\ UNCHANGED otherVars
  \/ \E fault \in BOOLEAN : GetAll(fault) /\ UNCHANGED otherVars
  \/ \E fault \in BOOLEAN : ServiceListActiveHosts(fault) /\ UNCHANGED otherVars
  \/ Tick /\ UNCHANGED otherVars

Spec == Init /\ [][Next]_vars

\* ------------------------------------------------------ the engine's runs
\* Time passes on the node.
NodeTick ==
  /\ Tick
  /\ verdict' = NoVerdict
  /\ UNCHANGED <<sock, handler, hostsFile>>

NodeInit ==
  /\ RegistryIdle
  /\ hm = HmIdle
  /\ NodeIdle
  /\ ConcIdle
  /\ run = RunIdle
  /\ LaterIdle

\* In this specification the next datagram is read once the handler of
\* the one before has run, so one handler exists at a time.
NodeNext ==
  \/ \E ok \in BOOLEAN : Broadcast(SelfInfo, ok) /\ UNCHANGED <<nonNodeVars, handed>>
  \/ \E n \in Peers : Broadcast(n, TRUE) /\ UNCHANGED <<nonNodeVars, handed>>
  \/ \E kind \in Forgeries : Inject(kind) /\ UNCHANGED <<nonNodeVars, handed>>
  \/ handler = <<>> /\ Listen /\ UNCHANGED <<nonNodeVars, handed>>
  \/ \E fault, syncFault \in BOOLEAN :
       HandlePacket(1, fault, syncFault) /\ UNCHANGED <<nonNodeVars, handed>>
  \/ NodeTick /\ UNCHANGED <<nonNodeVars, handed>>

SpecNode == NodeInit /\ [][NodeNext]_vars

\* The intake alone, with the datagrams per source counted: the node's own
\* announces and those of one peer, all within one second and so within
\* one rate window.
RateNext ==
  \/ Broadcast(SelfInfo, TRUE) /\ UNCHANGED <<nonNodeVars, handed>>
  \/ \E n \in {p \in Peers : p.skew = 0 /\ p.secret = NodeSecret} :
       Broadcast(n, TRUE) /\ UNCHANGED <<nonNodeVars, handed>>
  \/ handler = <<>> /\ Listen /\ handed' = Counted(handed, Head(sock).src)
     /\ UNCHANGED nonNodeVars
  \/ HandlePacket(1, FALSE, FALSE) /\ UNCHANGED <<nonNodeVars, handed>>

SpecRate == NodeInit /\ [][RateNext]_vars

\* ------------------------------------------------------------ Store.mu
\* The call each goroutine makes.
CallOf(w) ==
  CASE w = "handler-1" ->
         [op |-> "Upsert", payload |-> Payload(MAC1, IP1, "host-a", "16.0")]
    [] w = "handler-2" ->
         [op |-> "Upsert", payload |-> Payload(MAC1, IP2, "host-a", "16.0")]
    [] w = "rpc" -> [op |-> "MarkKeyPushed", mac |-> MAC1]
    [] w = "expiry" -> [op |-> "expireStaleHosts", threshold |-> 0]

\* The function the call hands to db.Update, run on a bucket.
CallTx(w, bucket, now) ==
  LET c == CallOf(w)
  IN CASE c.op = "Upsert" -> UpsertTx(bucket, c.payload, now)
       [] c.op = "MarkKeyPushed" -> MarkKeyPushedTx(bucket, c.mac, now)
       [] c.op = "expireStaleHosts" -> ExpireTx(bucket, c.threshold, now)

\* Variant of MuLock: the mutex is not taken.
MuLock_NoExclusion(w) ==
  /\ pc[w] = "idle"
  /\ mu' = w
  /\ pc' = [pc EXCEPT ![w] = "locked"]
  /\ UNCHANGED <<db, clock, upserts, lastOp, ret, reply, tx, shadow, outcome>>

\* Whether some goroutine holds the read side of s.mu.
ReadLocked == \E r \in Readers : readers[r].pc \in {"rlocked", "read"}

\* s.mu.Lock(): waits for the writer and for every reader inside.
MuLock(w) ==
  /\ pc[w] = "idle"
  /\ mu = ""
  /\ ~ReadLocked
  /\ mu' = w
  /\ pc' = [pc EXCEPT ![w] = "locked"]
  /\ UNCHANGED <<db, clock, upserts, lastOp, ret, reply, tx, shadow, outcome>>

\* Variant of TxBody: the time is sampled before s.mu.Lock().  The first
\* handler gets the lock at once; the other goroutines sampled at time 0
\* and waited.
TxBody_ClockBeforeLock(w, fault) ==
  /\ pc[w] = "locked"
  /\ LET now == IF w = "handler-1" THEN clock ELSE 0
     IN /\ tx' = [tx EXCEPT ![w] =
                    [base |-> db,
                     res |-> DbUpdate(db, CallTx(w, db, now), fault)]]
        /\ shadow' = DbUpdate(shadow, CallTx(w, shadow, now), fault).db
  /\ pc' = [pc EXCEPT ![w] = "computed"]
  /\ UNCHANGED <<db, clock, upserts, lastOp, ret, reply, mu, outcome>>

\* The body of the transaction: time.Now(), b.Get, the new record, b.Put
\* into the transaction's own pages.  Nothing is visible to other
\* goroutines until the commit.
TxBody(w, fault) ==
  /\ pc[w] = "locked"
  /\ tx' = [tx EXCEPT ![w] =
              [base |-> db, res |-> DbUpdate(db, CallTx(w, db, clock), fault)]]
  /\ shadow' = DbUpdate(shadow, CallTx(w, shadow, clock), fault).db
  /\ pc' = [pc EXCEPT ![w] = "computed"]
  /\ UNCHANGED <<db, clock, upserts, lastOp, ret, reply, mu, outcome>>

\* The commit at the end of db.Update: the keys the transaction put.
TxCommit(w) ==
  /\ pc[w] = "computed"
  /\ db' = [k \in Keys |-> IF tx[w].res.db[k] # tx[w].base[k]
                           THEN tx[w].res.db[k] ELSE db[k]]
  /\ upserts' = IF CallOf(w).op = "Upsert" /\ tx[w].res.err = "nil"
                THEN [upserts EXCEPT ![CallOf(w).payload.MACAddress] = @ + 1]
                ELSE upserts
  /\ outcome' = [outcome EXCEPT ![w] = tx[w].res.err]
  /\ pc' = [pc EXCEPT ![w] = "committed"]
  /\ UNCHANGED <<clock, lastOp, ret, reply, mu, tx, shadow>>

\* The deferred s.mu.Unlock().  A handler and an RPC call end here; the
\* expiry goroutine waits for its next tick.
MuUnlock(w) ==
  /\ pc[w] = "committed"
  /\ mu' = ""
  /\ tx' = [tx EXCEPT ![w] = NoTx]
  /\ pc' = [pc EXCEPT ![w] = IF w = "expiry" THEN "idle" ELSE "done"]
  /\ UNCHANGED <<db, clock, upserts, lastOp, ret, reply, shadow, outcome>>

ConcInit ==
  /\ RegistryIdle
  /\ hm = HmIdle
  /\ NodeIdle
  /\ ConcIdle
  /\ run = RunIdle
  /\ LaterIdle

ConcNext ==
  \/ \E w \in Workers : MuLock(w) /\ UNCHANGED nonConcVars
  \/ \E w \in Workers, fault \in BOOLEAN :
       TxBody(w, fault) /\ UNCHANGED nonConcVars
  \/ \E w \in Workers : TxCommit(w) /\ UNCHANGED nonConcVars
  \/ \E w \in Workers : MuUnlock(w) /\ UNCHANGED nonConcVars
  \/ Tick /\ UNCHANGED otherVars

SpecConc == ConcInit /\ [][ConcNext]_vars

\* ------------------------------------------------- Store.mu, the read side
\* The goroutines that write while the queries read: two handlers and one
\* RPC call.
Writers == {"handler-1", "handler-2", "rpc"}

RWFrame ==
  UNCHANGED <<registryVars, hm, nodeVars, concVars, run, ann, fr, tracker,
              intake, upsertErrs, lastVars>>

\* Variant of MuRLock: the read lock is granted while a writer holds s.mu.
MuRLock_IgnoresWriter(r) ==
  /\ readers[r].pc = "idle"
  /\ readers' = [readers EXCEPT ![r].pc = "rlocked"]
  /\ RWFrame

\* s.mu.RLock() of GetAll: waits for the writer, not for other readers.
MuRLock(r) ==
  /\ readers[r].pc = "idle"
  /\ mu = ""
  /\ readers' = [readers EXCEPT ![r].pc = "rlocked"]
  /\ RWFrame

\* db.View of GetAll: the records of the bucket as committed.
ViewTx(r, fault) ==
  /\ readers[r].pc = "rlocked"
  /\ LET res == StoreGetAll(db, fault)
     IN readers' = [readers EXCEPT ![r] =
                      [pc |-> "read", records |-> res.records, err |-> res.err]]
  /\ RWFrame

\* The deferred s.mu.RUnlock(); the query may be made again.
MuRUnlock(r) ==
  /\ readers[r].pc = "read"
  /\ readers' = [readers EXCEPT ![r].pc = "idle"]
  /\ RWFrame

RWNext ==
  \/ \E w \in Writers : MuLock(w) /\ UNCHANGED nonConcVars
  \/ \E w \in Writers, fault \in BOOLEAN :
       TxBody(w, fault) /\ UNCHANGED nonConcVars
  \/ \E w \in Writers : TxCommit(w) /\ UNCHANGED nonConcVars
  \/ \E w \in Writers : MuUnlock(w) /\ UNCHANGED nonConcVars
  \/ \E r \in Readers : MuRLock(r)
  \/ \E r \in Readers, fault \in BOOLEAN : ViewTx(r, fault)
  \/ \E r \in Readers : MuRUnlock(r)

SpecRW == ConcInit /\ [][RWNext]_vars

\* ------------------------------------------------------------- node.Run
\* The configurations Run may load: the secret unset, left at its
\* placeholder or set; the network range unset, malformed or a CIDR; the
\* two durations malformed or well-formed.
Configs ==
  [SharedSecret : {"", "CHANGE_ME", "s3cret"},
   NetworkRange : {"", "not-a-cidr", "192.168.1.0/24"},
   StaleThreshold : {"bad", "5m"},
   Interval : {"bad", "30s"}]

\* A return of Run with err: the deferred db.Close() runs if it was
\* registered.  Nothing else is deferred.
Return(r, err) ==
  [r EXCEPT !.pc = "returned", !.err = err,
            !.storeOpen = IF r.deferClose THEN FALSE ELSE @]

RunFrame == UNCHANGED <<registryVars, hm, sock, handler, handed, verdict,
                        concVars, laterVars>>

\* config.Load and the two checks on the loaded configuration.
RunLoad(ok) ==
  /\ run.pc = "load"
  /\ run' = IF ~ok THEN Return(run, "loading config")
            ELSE IF run.cfg.SharedSecret \in {"", "CHANGE_ME"}
            THEN Return(run, "shared_secret must be set")
            ELSE IF run.cfg.NetworkRange = ""
            THEN Return(run, "network_range must be set")
            ELSE [run EXCEPT !.pc = "mkdir"]
  /\ UNCHANGED hostsFile
  /\ RunFrame

\* os.MkdirAll for the database and the socket directory.
RunMkdirs(ok) ==
  /\ run.pc = "mkdir"
  /\ run' = IF ok THEN [run EXCEPT !.pc = "open"]
            ELSE Return(run, "creating directory")
  /\ UNCHANGED hostsFile
  /\ RunFrame

\* store.New and defer db.Close().
RunOpenStore(ok) ==
  /\ run.pc = "open"
  /\ run' = IF ok
            THEN [run EXCEPT !.pc = "sync", !.storeOpen = TRUE,
                             !.deferClose = TRUE]
            ELSE Return(run, "opening store")
  /\ UNCHANGED hostsFile
  /\ RunFrame

\* The initial hosts.Sync; its error is logged only.
RunInitialSync(fault) ==
  /\ run.pc = "sync"
  /\ hostsFile' = HostsSync(hostsFile, db, fault)
  /\ run' = [run EXCEPT !.pc = "expiry"]
  /\ RunFrame

\* ParseStaleThreshold and db.RunExpiry.
RunStartExpiry ==
  /\ run.pc = "expiry"
  /\ run' = IF run.cfg.StaleThreshold = "bad"
            THEN Return(run, "parsing stale threshold")
            ELSE [run EXCEPT !.pc = "rpc", !.expiry = TRUE]
  /\ UNCHANGED hostsFile
  /\ RunFrame

\* rpc.StartServer: os.Remove of a stale socket file, net.Listen on the
\* Unix socket, which creates the file, and the accept loop.
RunStartServer(ok) ==
  /\ run.pc = "rpc"
  /\ run' = IF ok
            THEN [run EXCEPT !.pc = "interval", !.rpcOpen = TRUE,
                             !.sockFile = TRUE]
            ELSE Return(run, "starting RPC server")
  /\ UNCHANGED hostsFile
  /\ RunFrame

\* ParseInterval, then go StartNode(...) and signal.Notify.
RunStartDiscovery ==
  /\ run.pc = "interval"
  /\ run' = IF run.cfg.Interval = "bad"
            THEN Return(run, "parsing interval")
            ELSE [run EXCEPT !.pc = "select", !.engine = "collect"]
  /\ UNCHANGED hostsFile
  /\ RunFrame

\* StartNode: sysinfo.Collect.
EngineCollect(ok) ==
  /\ run.engine = "collect"
  /\ run.pc # "returned"
  /\ run' = IF ok THEN [run EXCEPT !.engine = "cidr"]
            ELSE [run EXCEPT !.engine = "returned",
                             !.errCh = "auto-detecting interface"]
  /\ UNCHANGED hostsFile
  /\ RunFrame

\* StartNode: net.ParseCIDR and the broadcast address.
EngineParseCIDR ==
  /\ run.engine = "cidr"
  /\ run.pc # "returned"
  /\ run' = IF run.cfg.NetworkRange = "not-a-cidr"
            THEN [run EXCEPT !.engine = "returned",
                             !.errCh = "parsing network range"]
            ELSE [run EXCEPT !.engine = "listen"]
  /\ UNCHANGED hostsFile
  /\ RunFrame

\* StartNode: net.ListenUDP.  On success the listen goroutine and the
\* broadcast loop run from here on; StartNode does not return and nothing
\* closes conn.
EngineListenUDP(ok) ==
  /\ run.engine = "listen"
  /\ run.pc # "returned"
  /\ run' = IF ok THEN [run EXCEPT !.engine = "running", !.connOpen = TRUE]
            ELSE [run EXCEPT !.engine = "returned",
                             !.errCh = "listening on UDP port"]
  /\ UNCHANGED hostsFile
  /\ RunFrame

\* select, case err := <-errCh
RunSelectError ==
  /\ run.pc = "select"
  /\ run.errCh # ""
  /\ run' = Return([run EXCEPT !.errCh = ""], "discovery error")
  /\ UNCHANGED hostsFile
  /\ RunFrame

\* select, case sig := <-sigCh: os.Remove(cfg.Node.RPCSocket), return nil.
RunSelectSignal ==
  /\ run.pc = "select"
  /\ run' = Return([run EXCEPT !.sockFile = FALSE], "nil")
  /\ UNCHANGED hostsFile
  /\ RunFrame

RunInit ==
  /\ RegistryIdle
  /\ hm = HmIdle
  /\ NodeIdle
  /\ ConcIdle
  /\ LaterIdle
  /\ \E c \in Configs : run = [RunIdle EXCEPT !.pc = "load", !.cfg = c]

RunNext ==
  \/ \E ok \in BOOLEAN : RunLoad(ok)
  \/ \E ok \in BOOLEAN : RunMkdirs(ok)
  \/ \E ok \in BOOLEAN : RunOpenStore(ok)
  \/ \E fault \in BOOLEAN : RunInitialSync(fault)
  \/ RunStartExpiry
  \/ \E ok \in BOOLEAN : RunStartServer(ok)
  \/ RunStartDiscovery
  \/ \E ok \in BOOLEAN : EngineCollect(ok)
  \/ EngineParseCIDR
  \/ \E ok \in BOOLEAN : EngineListenUDP(ok)
  \/ RunSelectError
  \/ RunSelectSignal

SpecRun == RunInit /\ [][RunNext]_vars

\* ------------------------------------------------------ the freshness check
\* The check alone, on every receiver clock and every timestamp of the
\* integer width.
FreshnessCheck ==
  /\ fr.phase = "input"
  /\ fr' = [fr EXCEPT !.phase = "checked", !.rejected = TooOld(fr.now, fr.t)]
  /\ UNCHANGED <<registryVars, hm, nodeVars, concVars, run, ann, tracker,
                 intake, readers, upsertErrs, lastVars>>

FreshInit ==
  /\ RegistryIdle
  /\ hm = HmIdle
  /\ NodeIdle
  /\ ConcIdle
  /\ run = RunIdle
  /\ ann = AnnIdle
  /\ tracker = TrackerIdle
  /\ intake = NoIntake
  /\ readers = ReadersIdle
  /\ upsertErrs = 0
  /\ LastIdle
  /\ \E now \in Ints, t \in Ints :
       fr = [FrIdle EXCEPT !.phase = "input", !.now = now, !.t = t]

FreshNext == FreshnessCheck

SpecFresh == FreshInit /\ [][FreshNext]_vars

\* ------------------------------------------------------- the rate limiter
\* time.Minute, in ticks of the limiter's clock.
Minute == 1

\* Variant of TrackerAfter: a reset clears the counter of the arriving
\* source only.
TrackerAfter_ResetsOnlySource(tr, src, now) ==
  LET reset == now > tr.resetTime
      base == IF reset THEN [tr.counts EXCEPT ![src] = 0] ELSE tr.counts
  IN [counts |-> [base EXCEPT ![src] = @ + 1],
      resetTime |-> IF reset THEN now + Minute ELSE tr.resetTime]

\* The tracker after a datagram of src was read at time now: a new map and
\* a new reset time when now is after resetTime, then counts[srcIP]++.  A
\* source missing from the map counts zero.
TrackerAfter(tr, src, now) ==
  LET reset == now > tr.resetTime
      base == IF reset THEN [ip \in IPs |-> 0] ELSE tr.counts
  IN [counts |-> [base EXCEPT ![src] = @ + 1],
      resetTime |-> IF reset THEN now + Minute ELSE tr.resetTime]

LimiterFrame ==
  UNCHANGED <<registryVars, hm, nodeVars, concVars, run, ann, fr, readers,
              upsertErrs, lastVars>>

\* One turn of the read loop: the datagram is dropped when its source's
\* counter is past maxPacketsPerMin.  intake.prev keeps the counters the
\* datagram found.
LimiterArrive(src) ==
  /\ tracker.counts[src] <= maxPacketsPerMin
  /\ tracker' = TrackerAfter(tracker, src, intake.now)
  /\ intake' = [intake EXCEPT !.src = src,
                              !.prev = tracker.counts,
                              !.reset = intake.now > tracker.resetTime,
                              !.dropped = tracker'.counts[src] > maxPacketsPerMin]
  /\ LimiterFrame

LimiterTick ==
  /\ intake.now < MaxRateClock
  /\ intake' = [intake EXCEPT !.now = @ + 1]
  /\ UNCHANGED tracker
  /\ LimiterFrame

LimiterInit ==
  /\ RegistryIdle
  /\ hm = HmIdle
  /\ NodeIdle
  /\ ConcIdle
  /\ run = RunIdle
  /\ ann = AnnIdle
  /\ fr = FrIdle
  /\ readers = ReadersIdle
  /\ upsertErrs = 0
  /\ LastIdle
  /\ intake = NoIntake
  /\ tracker = [TrackerIdle EXCEPT !.resetTime = intake.now + Minute]

LimiterNext ==
  \/ \E src \in IPs : LimiterArrive(src)
  \/ LimiterTick

SpecLimiter == LimiterInit /\ [][LimiterNext]_vars

\* ------------------------------------- the intake beside a held registry
\* The receive loop and the handlers it starts, while the expiry goroutine
\* takes s.mu for a sweep that may last any time.  A handler whose packet
\* passes the checks waits in Upsert for s.mu; one whose packet fails them
\* never asks for it.
IntakePeers ==
  {p \in Peers : p.secret = NodeSecret /\ p.mac # SelfInfo.mac
                 /\ p.skew \in {0, 61}}

IntakeFrame ==
  UNCHANGED <<hm, concVars, run, ann, fr, tracker, intake, readers, handed,
              lastVars>>

\* Whether the i-th handler reaches db.Upsert.
ReachesUpsert(i) ==
  Validate(handler[i].bytes, SelfInfo.mac, SelfInfo.secret, clock).why
    = "accepted"

\* A peer's announce reaches the socket.
IntakeArrive(n) ==
  /\ TotalUpserts + Len(handler) + Len(sock) < MaxPackets
  /\ Broadcast(n, TRUE)
  /\ IntakeFrame
  /\ UNCHANGED <<upsertErrs, lastVars>>

IntakeListen ==
  /\ Listen
  /\ IntakeFrame
  /\ UNCHANGED <<upsertErrs, lastVars>>

\* upsertErrs counts the Upsert calls of handlers that returned an error.
IntakeHandle(i, fault, syncFault) ==
  /\ i \in 1..Len(handler)
  /\ ReachesUpsert(i) => (mu = "" /\ ~ReadLocked)
  /\ fault => upsertErrs < MaxUpsertErrs
  /\ HandlePacket(i, fault, syncFault)
  /\ upsertErrs' = IF lastOp'.op = "Upsert" /\ lastOp'.err # "nil"
                   THEN upsertErrs + 1 ELSE upsertErrs
  /\ IntakeFrame

\* The sweep of the expiry goroutine, step by step.
IntakeSweep ==
  /\ \/ MuLock("expiry")
     \/ \E fault \in BOOLEAN : TxBody("expiry", fault)
     \/ TxCommit("expiry")
     \/ MuUnlock("expiry")
  /\ UNCHANGED nonConcVars

IntakeNext ==
  \/ \E n \in IntakePeers : IntakeArrive(n)
  \/ IntakeListen
  \/ \E i \in 1..MaxPackets, fault \in BOOLEAN, syncFault \in BOOLEAN :
       IntakeHandle(i, fault, syncFault)
  \/ IntakeSweep

\* The receive loop is a goroutine of its own and runs whenever a datagram
\* is waiting; nothing is assumed of the handlers or of the sweep.
SpecIntake == NodeInit /\ [][IntakeNext]_vars /\ WF_vars(IntakeListen)

\* ------------------------------------------------------ the announce target
\* The octets the addresses below are made of, and the prefix lengths of
\* an IPv4 CIDR.
Octets == {0, 10, 51, 182, 240, 255}
PrefixLens == 0..32

RECURSIVE BitAnd(_, _, _)
\* a & b on bytes, bit by bit from the lowest of n bits.
BitAnd(a, b, n) ==
  IF n = 0 THEN 0
  ELSE (IF a % 2 = 1 /\ b % 2 = 1 THEN 1 ELSE 0)
       + 2 * BitAnd(a \div 2, b \div 2, n - 1)

RECURSIVE BitOr(_, _, _)
\* a | b on bytes.
BitOr(a, b, n) ==
  IF n = 0 THEN 0
  ELSE (IF a % 2 = 1 \/ b % 2 = 1 THEN 1 ELSE 0)
       + 2 * BitOr(a \div 2, b \div 2, n - 1)

\* ^b on a byte.
BitNot(b) == 255 - b

\* net.CIDRMask(ones, 32): 0xff for a byte inside the prefix, and
\* ^byte(0xff >> n) for the byte the prefix ends in.
CIDRMask(ones) ==
  [i \in 1..4 |->
     LET n == ones - 8 * (i - 1)
     IN IF n >= 8 THEN 255
        ELSE IF n <= 0 THEN 0
        ELSE BitNot(255 \div TwoTo(n))]

\* net.ParseCIDR of "a.b.c.d/ones": the address masked, and the mask.
ParseCIDR(ip, ones) ==
  LET mask == CIDRMask(ones)
  IN [IP |-> [i \in 1..4 |-> BitAnd(ip[i], mask[i], 8)], Mask |-> mask]

\* Variant of getBroadcastIP: the mask is not complemented.
getBroadcastIP_OrMask(n) ==
  [i \in 1..4 |-> BitOr(n.IP[i], n.Mask[i], 8)]

\* getBroadcastIP: broadcastIP[i] = ip[i] | ^mask[i]
getBroadcastIP(n) ==
  [i \in 1..4 |-> BitOr(n.IP[i], BitNot(n.Mask[i]), 8)]

\* StartNode computes the target of its announces from the network range.
TargetCompute ==
  /\ bc.phase = "range"
  /\ bc' = [bc EXCEPT !.phase = "done",
                      !.target = getBroadcastIP(ParseCIDR(bc.ip, bc.ones))]
  /\ UNCHANGED <<registryVars, hm, nodeVars, concVars, run, ann, fr, tracker,
                 intake, readers, upsertErrs, syncers, buf>>

TargetInit ==
  /\ RegistryIdle
  /\ hm = HmIdle
  /\ NodeIdle
  /\ ConcIdle
  /\ run = RunIdle
  /\ ann = AnnIdle
  /\ fr = FrIdle
  /\ tracker = TrackerIdle
  /\ intake = NoIntake
  /\ readers = ReadersIdle
  /\ upsertErrs = 0
  /\ syncers = SyncersIdle
  /\ buf = NoBuf
  /\ \E a \in Octets, b \in Octets, c \in Octets, d \in Octets,
        ones \in PrefixLens :
       bc = [BcIdle EXCEPT !.phase = "range", !.ip = <<a, b, c, d>>,
                           !.ones = ones]

TargetNext == TargetCompute

SpecTarget == TargetInit /\ [][TargetNext]_vars

\* ------------------------------------------------------------ RunExpiry
\* The threshold node.Run hands to RunExpiry.
ExpiryThreshold == 0

\* Variant of RunExpirySweep: the sweep runs after an announce was stored.
RunExpirySweep_OnAnnounce(fault) ==
  /\ lastOp.op = "Upsert"
  /\ ExpireStaleHosts(ExpiryThreshold, fault)

\* The goroutine of RunExpiry: on every tick of its own ticker, whatever
\* else happens, expireStaleHosts(threshold).
RunExpirySweep(fault) ==
  ExpireStaleHosts(ExpiryThreshold, fault)

\* The announces of two hosts, stored while the clock is short of its
\* bound, so that time passes after the last of them.
ExpiryAnnounce ==
  \E p \in {q \in Payloads : q.MACAddress # "" /\ q.MemoryGB # "NaN"
                             /\ q.Hostname # "host-b"},
     fault \in BOOLEAN :
    /\ clock + ExpiryThreshold < MaxClock
    /\ Upsert(p, fault)
    /\ UNCHANGED otherVars

ExpirySweepOK == RunExpirySweep(FALSE) /\ UNCHANGED otherVars
ExpirySweepFails == RunExpirySweep(TRUE) /\ UNCHANGED otherVars
ExpiryTick == Tick /\ UNCHANGED otherVars

ExpiryNext ==
  ExpiryAnnounce \/ ExpirySweepOK \/ ExpirySweepFails \/ ExpiryTick

\* Time passes, and the sweep's ticker fires and its transaction commits
\* again and again.  Nothing obliges a host to announce.
SpecExpiry ==
  /\ Init
  /\ [][ExpiryNext]_vars
  /\ WF_vars(ExpiryTick)
  /\ WF_vars(ExpirySweepOK)

\* ------------------------------------------- hosts.Sync beside the registry
\* The tail of handlePacket step by step, for two handlers whose packets
\* passed the checks: db.Upsert under the write lock, then hosts.Sync,
\* which reads the registry with GetAll under the read lock and, holding
\* no lock, rewrites the managed section from the records it read.  The
\* expiry sweep runs beside them.
SyncPayload(h) ==
  IF h = "handler-1" THEN Payload(MAC1, IP1, "host-a", "16.0")
  ELSE Payload(MAC2, IP2, "host-c", "16.0")

SyncFrame ==
  UNCHANGED <<hm, sock, handler, handed, verdict, concVars, run, ann, fr,
              tracker, intake, readers, upsertErrs, bc, buf>>

\* db.Upsert(payload) of a handler started for a new datagram.
HandlerUpsert(h) ==
  /\ syncers[h].pc \in {"idle", "done"}
  /\ Upsert(SyncPayload(h), FALSE)
  /\ syncers' = [syncers EXCEPT ![h].pc = "upserted"]
  /\ UNCHANGED hostsFile
  /\ SyncFrame

\* hosts, err := db.GetAll()
SyncGetAll(h) ==
  /\ syncers[h].pc = "upserted"
  /\ GetAll(FALSE)
  /\ syncers' = [syncers EXCEPT ![h] = [pc |-> "read", records |-> ret']]
  /\ UNCHANGED hostsFile
  /\ SyncFrame

\* The scan of the file, the new managed section and os.WriteFile.
SyncWriteFile(h) ==
  /\ syncers[h].pc = "read"
  /\ hostsFile' = [managed |-> TRUE,
                   entries |-> ManagedLines(syncers[h].records, 1)]
  /\ syncers' = [syncers EXCEPT ![h].pc = "done"]
  /\ lastOp' = Op("hosts.Sync", SyncPayload(h).MACAddress, "-", 0, "nil")
  /\ UNCHANGED <<db, clock, upserts, ret, reply>>
  /\ SyncFrame

SyncSweep ==
  /\ ExpireStaleHosts(ExpiryThreshold, FALSE)
  /\ UNCHANGED <<hostsFile, syncers>>
  /\ SyncFrame

SyncTick ==
  /\ Tick
  /\ UNCHANGED <<hostsFile, syncers>>
  /\ SyncFrame

SyncNext ==
  \/ \E h \in Syncers : HandlerUpsert(h)
  \/ \E h \in Syncers : SyncGetAll(h)
  \/ \E h \in Syncers : SyncWriteFile(h)
  \/ SyncSweep
  \/ SyncTick

SpecSync == NodeInit /\ [][SyncNext]_vars

\* ------------------------------------------------------ datagrams replayed
\* A host on the segment sends a datagram the node has accepted once more,
\* byte for byte.  The peers announce with the node's secret, on time or
\* sixty seconds behind; the sweep runs beside the intake.
ReplayPeers ==
  {p \in Peers : p.secret = NodeSecret /\ p.mac # SelfInfo.mac
                 /\ p.skew \in {0, -60}}

ReplayFrame == UNCHANGED <<nonNodeVars, handed>>

Replay ==
  /\ sock = <<>>
  /\ verdict.why = "accepted"
  /\ sock' = <<[verdict.d EXCEPT !.origin = "replay"]>>
  /\ lastOp' = Op("replay", verdict.payload.MACAddress, "-", 0, "nil")
  /\ verdict' = NoVerdict
  /\ UNCHANGED <<db, clock, upserts, ret, reply, handler, hostsFile>>
  /\ ReplayFrame

ReplaySweep ==
  /\ RunExpirySweep(FALSE)
  /\ verdict' = NoVerdict
  /\ UNCHANGED <<sock, handler, hostsFile>>
  /\ ReplayFrame

ReplayNext ==
  \/ \E n \in ReplayPeers : Broadcast(n, TRUE) /\ ReplayFrame
  \/ Replay
  \/ handler = <<>> /\ Listen /\ ReplayFrame
  \/ HandlePacket(1, FALSE, FALSE) /\ ReplayFrame
  \/ ReplaySweep
  \/ NodeTick /\ ReplayFrame

SpecReplay == NodeInit /\ [][ReplayNext]_vars

\* ------------------------------------------------------ the receive buffer
\* listen with its buffer: buf := make([]byte, maxPacketSize), one buffer
\* for every read.  The variable buf holds the bytes written into it so
\* far; the bytes after them are still zero.
maxPacketSize == 4096

Min(a, b) == IF a < b THEN a ELSE b

\* Variant of ReadFromUDP: the whole datagram is read, whatever its length.
ReadFromUDP_Whole(b, wire) ==
  [n |-> Len(wire), buf |-> wire \o SubSeq(b, Len(wire) + 1, Len(b))]

\* conn.ReadFromUDP(buf): the datagram is written over the start of the
\* buffer, cut at the length of the buffer; n is the number of bytes
\* written.
ReadFromUDP(b, wire) ==
  LET n == Min(Len(wire), maxPacketSize)
  IN [n |-> n, buf |-> SubSeq(wire, 1, n) \o SubSeq(b, n + 1, Len(b))]

\* Variant of ListenBuf: packet := buf[:n], so every handler still running
\* reads its packet from the one buffer.
ListenBuf_SharesBuffer ==
  /\ sock # <<>>
  /\ LET r == ReadFromUDP(buf, Head(sock).bytes)
     IN /\ buf' = r.buf
        /\ handler' =
             Append([i \in 1..Len(handler) |->
                       [handler[i] EXCEPT !.bytes = SubSeq(r.buf, 1, Len(@))]],
                    [Head(sock) EXCEPT !.bytes = SubSeq(r.buf, 1, r.n)])
  /\ sock' = Tail(sock)
  /\ lastOp' = Op("listen", "", "-", 0, "nil")
  /\ verdict' = NoVerdict
  /\ UNCHANGED <<db, clock, upserts, ret, reply, hostsFile>>

\* One iteration of listen: ReadFromUDP into buf, packet := make([]byte,
\* n), copy(packet, buf[:n]), go handlePacket(packet, ...).
ListenBuf ==
  /\ sock # <<>>
  /\ LET r == ReadFromUDP(buf, Head(sock).bytes)
     IN /\ buf' = r.buf
        /\ handler' = Append(handler,
                             [Head(sock) EXCEPT !.bytes = SubSeq(r.buf, 1, r.n)])
  /\ sock' = Tail(sock)
  /\ lastOp' = Op("listen", "", "-", 0, "nil")
  /\ verdict' = NoVerdict
  /\ UNCHANGED <<db, clock, upserts, ret, reply, hostsFile>>

BufFrame ==
  UNCHANGED <<hm, concVars, run, ann, fr, tracker, intake, readers,
              upsertErrs, bc, syncers, handed>>

\* The datagrams that reach the socket while handlers are running: the
\* announces of a peer on time and of one sixty seconds ahead, and signed
\* bytes that are no payload.
BufPeers ==
  {p \in Peers : p.secret = NodeSecret /\ p.mac # SelfInfo.mac
                 /\ p.skew \in {0, 60}}

BufArrive ==
  /\ TotalUpserts + Len(handler) + Len(sock) < MaxPackets
  /\ \/ \E n \in BufPeers : Broadcast(n, TRUE)
     \/ Inject("garbage")
  /\ UNCHANGED buf
  /\ BufFrame

BufNext ==
  \/ BufArrive
  \/ ListenBuf /\ BufFrame
  \/ \E i \in 1..MaxPackets :
       HandlePacket(i, FALSE, FALSE) /\ UNCHANGED buf /\ BufFrame

SpecBuf == NodeInit /\ [][BufNext]_vars

\* ------------------------------------------------------ datagrams too long
\* The longest CPUModel whose packet fits the buffer, and a peer whose
\* CPUModel is one byte shorter than that, as long, or up to MaxOver bytes
\* longer.
FitsBuffer == maxPacketSize - HMACSize - Len(FieldOrder)

LongPeers ==
  {[mac |-> MAC2, ip |-> IP2, hostname |-> "host-c", secret |-> NodeSecret,
    skew |-> 0, cpuModel |-> k] : k \in (FitsBuffer - 1)..(FitsBuffer + MaxOver)}

SizeArrive ==
  /\ TotalUpserts + Len(handler) + Len(sock) < MaxPackets
  /\ \E n \in LongPeers : Broadcast(n, TRUE)
  /\ UNCHANGED buf
  /\ BufFrame

SizeNext ==
  \/ SizeArrive
  \/ handler = <<>> /\ ListenBuf /\ BufFrame
  \/ HandlePacket(1, FALSE, FALSE) /\ UNCHANGED buf /\ BufFrame

SpecSize == NodeInit /\ [][SizeNext]_vars

\* ------------------------------------------------------- the announce loop
\* The ticker of StartNode delivers a tick.  Its channel holds one tick:
\* a tick that finds the last one unread is dropped.
TickerFire ==
  /\ ann.pc \in {"initial", "loop"}
  /\ ann.fired < MaxTicks
  /\ ann' = [ann EXCEPT !.fired = @ + 1, !.tick = TRUE]
  /\ UNCHANGED <<registryVars, nodeVars>>

\* What an attempt to announce leaves in the loop's record.
Attempted(a, ok) ==
  [a EXCEPT !.attempts = @ + 1,
            !.failed = IF ok THEN @ ELSE @ + 1,
            !.lastOk = ok]

\* The initial broadcast of StartNode, before the loop.
AnnounceInitial(ok) ==
  /\ ann.pc = "initial"
  /\ Broadcast(SelfInfo, ok)
  /\ ann' = [Attempted(ann, ok) EXCEPT !.pc = "loop"]
  /\ UNCHANGED handed

\* Variant of AnnounceOnTick: a failed broadcast ends the loop.
AnnounceOnTick_StopsOnError(ok) ==
  /\ ann.pc = "loop"
  /\ ann.tick
  /\ Broadcast(SelfInfo, ok)
  /\ ann' = [Attempted(ann, ok) EXCEPT !.tick = FALSE, !.consumed = @ + 1,
                                       !.pc = IF ok THEN "loop" ELSE "stopped"]
  /\ UNCHANGED handed

\* One iteration of for range ticker.C: broadcast returns nothing, so
\* whatever happened in it the loop waits for the next tick.
AnnounceOnTick(ok) ==
  /\ ann.pc = "loop"
  /\ ann.tick
  /\ Broadcast(SelfInfo, ok)
  /\ ann' = [Attempted(ann, ok) EXCEPT !.tick = FALSE, !.consumed = @ + 1]
  /\ UNCHANGED handed

AnnFrame == UNCHANGED <<hm, concVars, run, fr, tracker, intake, readers,
                        upsertErrs, lastVars>>

\* StartNode after net.ListenUDP and time.NewTicker.
AnnInit ==
  /\ RegistryIdle
  /\ hm = HmIdle
  /\ NodeIdle
  /\ ConcIdle
  /\ run = RunIdle
  /\ ann = [AnnIdle EXCEPT !.pc = "initial"]
  /\ fr = FrIdle
  /\ tracker = TrackerIdle
  /\ intake = NoIntake
  /\ readers = ReadersIdle
  /\ upsertErrs = 0
  /\ LastIdle

AnnTick == TickerFire /\ AnnFrame
AnnFirst == \E ok \in BOOLEAN : AnnounceInitial(ok) /\ AnnFrame
AnnLoop == \E ok \in BOOLEAN : AnnounceOnTick(ok) /\ AnnFrame
AnnListen == Listen /\ UNCHANGED <<handed, ann>> /\ AnnFrame
AnnHandle ==
  \E i \in 1..Len(handler) :
    HandlePacket(i, FALSE, FALSE) /\ UNCHANGED <<handed, ann>> /\ AnnFrame

AnnNext == AnnTick \/ AnnFirst \/ AnnLoop \/ AnnListen \/ AnnHandle

\* The goroutines of the node are scheduled: the loop, the receive loop
\* and the handlers each run when they can.  The ticker is not bound to
\* fire.
SpecAnnounce ==
  /\ AnnInit
  /\ [][AnnNext]_vars
  /\ WF_vars(AnnFirst)
  /\ WF_vars(AnnLoop)
  /\ WF_vars(AnnListen)
  /\ WF_vars(AnnHandle)

\* ------------------------------------------------------------ properties
Has(m) == db[m] # Absent
Rec(m) == Unmarshal(db[m]).record
HasIn(bucket, m) == bucket[m] # Absent
RecIn(bucket, m) == Unmarshal(bucket[m]).record
SeqRange(q) == {q[i] : i \in 1..Len(q)}

\* The step just taken is a call of the named method that returned nil.
Returned(name) == lastOp'.op = name /\ lastOp'.err = "nil"

\* C1, state part: after exactly N successful Upserts for a MAC its record
\* has PacketCount N (no record while N is 0), and in the state an Upsert
\* returns to, the record's LastSeen is the time of the call and it is
\* Active.
C1_CountIsNumberOfUpserts ==
  /\ \A m \in MACs :
       IF upserts[m] = 0 THEN ~Has(m)
       ELSE Has(m) /\ Rec(m).PacketCount = upserts[m]
  /\ (lastOp.op = "Upsert" /\ lastOp.err = "nil") =>
       /\ Has(lastOp.mac)
       /\ Rec(lastOp.mac).LastSeen = clock
       /\ Rec(lastOp.mac).Active

\* C1, step part: a successful Upsert raises the PacketCount of its MAC by
\* exactly 1 (from nothing to 1), and no step of any operation lowers a
\* PacketCount.
C1_CountStep ==
  /\ \A k \in Keys :
       HasIn(db, k) =>
         /\ HasIn(db', k)
         /\ RecIn(db', k).PacketCount >= RecIn(db, k).PacketCount
  /\ Returned("Upsert") =>
       LET m == lastOp'.mac
       IN RecIn(db', m).PacketCount =
            (IF HasIn(db, m) THEN RecIn(db, m).PacketCount ELSE 0) + 1

\* C1: for every MAC, after N successful Upserts PacketCount is N; each
\* Upsert adds exactly 1, no operation lowers it, and after an Upsert
\* LastSeen is the time of the call and Active is true.
C1_PacketCount == [](C1_CountIsNumberOfUpserts) /\ [][C1_CountStep]_vars

\* C1 witness: the third successful Upsert for one MAC has just returned,
\* at a later time than the first, after the record had been expired.
C1_Witness ==
  /\ lastOp.op = "Upsert" /\ lastOp.err = "nil" /\ lastOp.mac = MAC1
  /\ lastOp.before = "inactive"
  /\ upserts[MAC1] = 3 /\ Rec(MAC1).PacketCount = 3
  /\ Rec(MAC1).FirstSeen = 0 /\ Rec(MAC1).LastSeen = 1

\* The MACs for which some Upsert has returned nil.
Upserted == {m \in MACs : upserts[m] > 0}

\* C2, state part: the bucket holds a record under exactly the MACs that
\* were upserted, each record carries the MAC it is stored under, and a
\* scan returns one record per such MAC.
C2_OnePerMAC ==
  /\ {k \in Keys : Has(k)} = Upserted
  /\ \A k \in Keys : Has(k) => Rec(k).Beacon.MACAddress = k
  /\ Len(ForEachRecord(db, 1)) = Cardinality(Upserted)
  /\ {r.Beacon.MACAddress : r \in SeqRange(ForEachRecord(db, 1))} = Upserted
  /\ (lastOp.op = "GetAll" /\ lastOp.err = "nil") =>
       /\ Len(ret) = Cardinality(Upserted)
       /\ {r.Beacon.MACAddress : r \in SeqRange(ret)} = Upserted

\* C2, step part: a successful Upsert of payload p leaves p as the snapshot
\* of the record of p's MAC, touches no other entry, and adds a record
\* only if that MAC had none.
C2_InPlace ==
  \A p \in Payloads :
    (Upsert(p, FALSE) /\ Returned("Upsert")) =>
      /\ RecIn(db', p.MACAddress).Beacon = p
      /\ \A k \in Keys \ {p.MACAddress} : db'[k] = db[k]
      /\ Len(ForEachRecord(db', 1)) =
           Len(ForEachRecord(db, 1)) + (IF Has(p.MACAddress) THEN 0 ELSE 1)

\* C2: one record per distinct MAC ever upserted; an Upsert for a MAC that
\* has a record replaces its snapshot in place, also with a changed IP or
\* hostname; k distinct MACs give k records in GetAll.
C2_OneRecordPerMAC == [](C2_OnePerMAC) /\ [][C2_InPlace]_vars

\* C2 witness: GetAll returns two records after one host re-announced
\* with a changed IP address and a second host announced.
C2_Witness ==
  /\ lastOp.op = "GetAll" /\ lastOp.err = "nil"
  /\ Len(ret) = 2
  /\ upserts[MAC1] >= 2 /\ upserts[MAC2] >= 1
  /\ Rec(MAC1).Beacon.IPAddress = IP2
  /\ Rec(MAC1).FirstSeen < Rec(MAC1).LastSeen

\* C3, one step: Active goes from true to false only in a step of the expiry sweep
\* and only for a record whose LastSeen is at least the threshold before
\* the sweep's time; Upsert and MarkKeyPushed never clear it, and a sweep
\* leaves Active alone on a record younger than the threshold.
C3_Step ==
  /\ \A k \in Keys :
       (HasIn(db, k) /\ RecIn(db, k).Active
          /\ ~(HasIn(db', k) /\ RecIn(db', k).Active)) =>
         /\ lastOp'.op = "expireStaleHosts"
         /\ clock - RecIn(db, k).LastSeen >= lastOp'.threshold
  /\ lastOp'.op \in {"Upsert", "MarkKeyPushed"} =>
       \A k \in Keys : HasIn(db', k) /\ HasIn(db, k) /\ RecIn(db, k).Active
                         => RecIn(db', k).Active
  /\ lastOp'.op = "expireStaleHosts" =>
       \A k \in Keys :
         (HasIn(db, k) /\ clock - RecIn(db, k).LastSeen < lastOp'.threshold)
           => RecIn(db', k).Active = RecIn(db, k).Active

\* C3: in every step, Active is cleared only by the expiry sweep and only
\* on a record at least the threshold old.
C3_DeactivationOnlyByExpiry == [][C3_Step]_vars

\* C3 witness: a sweep with threshold 0 has deactivated a record last seen
\* before the sweep's time, next to a record last seen at that time that
\* is still Active.
C3_Witness ==
  /\ lastOp.op = "expireStaleHosts" /\ lastOp.err = "nil"
  /\ lastOp.threshold = 0
  /\ Has(MAC1) /\ ~Rec(MAC1).Active /\ Rec(MAC1).LastSeen < clock
  /\ Has(MAC2) /\ Rec(MAC2).Active /\ Rec(MAC2).LastSeen = clock

\* C4, one step, as claimed: a sweep that completes deactivates every Active record
\* with now - LastSeen >= threshold, equality included, and leaves every
\* record with now - LastSeen < threshold as it was.
C4_Step ==
  Returned("expireStaleHosts") =>
    \A k \in Keys :
      HasIn(db, k) =>
        IF clock - RecIn(db, k).LastSeen >= lastOp'.threshold
        THEN HasIn(db', k) /\ ~RecIn(db', k).Active
        ELSE db'[k] = db[k]

\* C4: every completed sweep deactivates exactly the Active records with
\* now - LastSeen >= threshold.
C4_SweepAtThreshold == [][C4_Step]_vars

\* C5, one step: a successful Upsert for a MAC that has a record, Active or not,
\* leaves the record Active with the same FirstSeen and PacketCount one
\* higher; it does not start the record over.
C5_Step ==
  (Returned("Upsert") /\ HasIn(db, lastOp'.mac)) =>
    LET m == lastOp'.mac
    IN /\ HasIn(db', m)
       /\ RecIn(db', m).Active
       /\ RecIn(db', m).FirstSeen = RecIn(db, m).FirstSeen
       /\ RecIn(db', m).PacketCount = RecIn(db, m).PacketCount + 1

\* C5: every successful Upsert on an existing record, Inactive included,
\* makes it Active, keeps FirstSeen and adds 1 to PacketCount.
C5_Resurrection == [][C5_Step]_vars

\* C5 witness: an Upsert has just revived a record that a sweep had made
\* Inactive; the record is older than this call and counts two packets.
C5_Witness ==
  /\ lastOp.op = "Upsert" /\ lastOp.err = "nil" /\ lastOp.mac = MAC2
  /\ lastOp.before = "inactive"
  /\ Rec(MAC2).Active /\ Rec(MAC2).PacketCount = 2
  /\ Rec(MAC2).FirstSeen = 0 /\ clock = 1

\* C6, one step: FirstSeen is the time of the Upsert that created the record and no
\* later step changes it.
C6_Step ==
  \A k \in Keys :
    /\ (HasIn(db, k) =>
          HasIn(db', k) /\ RecIn(db', k).FirstSeen = RecIn(db, k).FirstSeen)
    /\ (~HasIn(db, k) /\ HasIn(db', k)) =>
          /\ lastOp'.op = "Upsert"
          /\ RecIn(db', k).FirstSeen = clock

\* C6: no step changes the FirstSeen of an existing record.
C6_FirstSeenImmutable == [][C6_Step]_vars

\* C6 witness: a record created at time 0 that has since been upserted
\* again at a later time, marked as pushed and expired.
C6_Witness ==
  /\ Has(MAC1) /\ Rec(MAC1).FirstSeen = 0 /\ Rec(MAC1).LastSeen = 1
  /\ Rec(MAC1).PacketCount >= 2
  /\ Rec(MAC1).SSHKeyPushed /\ ~Rec(MAC1).Active

\* C7, one step: once SSHKeyPushed is true in a record it is true in every later
\* state, and a successful MarkKeyPushed makes it true.
C7_Step ==
  /\ \A k \in Keys :
       (HasIn(db, k) /\ RecIn(db, k).SSHKeyPushed) =>
         (HasIn(db', k) /\ RecIn(db', k).SSHKeyPushed)
  /\ Returned("MarkKeyPushed") =>
       HasIn(db', lastOp'.mac) /\ RecIn(db', lastOp'.mac).SSHKeyPushed

\* C7: no step takes SSHKeyPushed from true to false.
C7_KeyPushedMonotone == [][C7_Step]_vars

\* C7 witness: an Upsert with changed metadata has just revived an
\* expired record whose key had been pushed, and the flag is still set.
C7_Witness ==
  /\ lastOp.op = "Upsert" /\ lastOp.err = "nil" /\ lastOp.mac = MAC1
  /\ lastOp.before = "inactive"
  /\ Rec(MAC1).SSHKeyPushed /\ Rec(MAC1).SSHKeyPushedAt = PtrTo(0)
  /\ Rec(MAC1).Beacon.Hostname = "host-b" /\ Rec(MAC1).LastSeen = 1

\* C8: MarkKeyPushed for a MAC that has a record returns nil (unless the
\* storage itself failed) and leaves the record with SSHKeyPushed true and
\* PushedAt pointing at the time of the call.
C8_MarkKeyPushedExisting ==
  (lastOp.op = "MarkKeyPushed" /\ lastOp.before # "absent"
     /\ lastOp.err # "storage") =>
    /\ lastOp.err = "nil"
    /\ Has(lastOp.mac)
    /\ Rec(lastOp.mac).SSHKeyPushed
    /\ Rec(lastOp.mac).SSHKeyPushedAt # NilTime
    /\ Rec(lastOp.mac).SSHKeyPushedAt = PtrTo(clock)
    /\ reply.Success /\ reply.Error = "nil"

\* C8 witness: MarkKeyPushed has just succeeded at time 1 on a record
\* that was last seen at time 0.
C8_Witness ==
  /\ lastOp.op = "MarkKeyPushed" /\ lastOp.err = "nil" /\ lastOp.mac = MAC1
  /\ clock = 1 /\ Rec(MAC1).LastSeen = 0
  /\ Rec(MAC1).SSHKeyPushed /\ Rec(MAC1).SSHKeyPushedAt = PtrTo(1)

\* C9, one step: MarkKeyPushed for a MAC without a record returns an error, the
\* not-found error unless the storage itself failed, changes nothing in
\* the bucket, and the RPC answer is an error, not a success reply.
C9_Step ==
  (lastOp'.op = "MarkKeyPushed" /\ lastOp'.before = "absent") =>
    /\ lastOp'.err # "nil"
    /\ lastOp'.err # "storage" => lastOp'.err = "not found"
    /\ db' = db
    /\ ~reply'.Success
    /\ reply'.Error \notin {"nil", "none"}

\* C9: every MarkKeyPushed on a MAC without a record fails and changes
\* nothing, and its RPC answer is an error.
C9_MarkKeyPushedNotFound == [][C9_Step]_vars

\* C9 witness: MarkKeyPushed has just failed with not-found for a MAC
\* that has no record, while another MAC has one.
C9_Witness ==
  /\ lastOp.op = "MarkKeyPushed" /\ lastOp.err = "not found"
  /\ lastOp.mac = MAC2 /\ lastOp.before = "absent"
  /\ ~Has(MAC2) /\ Has(MAC1) /\ ~Rec(MAC1).SSHKeyPushed
  /\ ~reply.Success

\* C10: what GetActive returns is exactly the records of GetAll whose
\* Active flag is true, each once: every Active record, no Inactive one.
C10_GetActiveIsActiveSubset ==
  (lastOp.op = "GetActive" /\ lastOp.err = "nil") =>
    /\ SeqRange(ret) = {r \in SeqRange(ForEachRecord(db, 1)) : r.Active}
    /\ SeqRange(ret) = {Rec(k) : k \in {j \in Keys : Has(j) /\ Rec(j).Active}}
    /\ Len(ret) = Cardinality({k \in Keys : Has(k) /\ Rec(k).Active})
    /\ reply.Hosts = ret

\* C10 witness: GetActive has returned one record while the registry
\* holds two, one of them Inactive.
C10_Witness ==
  /\ lastOp.op = "GetActive" /\ lastOp.err = "nil"
  /\ Len(ret) = 1 /\ ret[1].Beacon.MACAddress = MAC2
  /\ Has(MAC1) /\ ~Rec(MAC1).Active /\ Has(MAC2)

\* C11, one step: a sweep leaves every key with or without a record as it
\* was, and every record equal to what it was in all fields but Active.
C11_Step ==
  lastOp'.op = "expireStaleHosts" =>
    \A k \in Keys :
      /\ HasIn(db', k) = HasIn(db, k)
      /\ HasIn(db, k) =>
           /\ RecIn(db', k).PacketCount = RecIn(db, k).PacketCount
           /\ RecIn(db', k).FirstSeen = RecIn(db, k).FirstSeen
           /\ RecIn(db', k).LastSeen = RecIn(db, k).LastSeen
           /\ RecIn(db', k).Beacon = RecIn(db, k).Beacon
           /\ RecIn(db', k).SSHKeyPushed = RecIn(db, k).SSHKeyPushed
           /\ RecIn(db', k).SSHKeyPushedAt = RecIn(db, k).SSHKeyPushedAt

\* C11: an expiry sweep changes nothing but Active flags; it creates and
\* removes no record.
C11_SweepChangesOnlyActive == [][C11_Step]_vars

\* C11 witness: a sweep has just deactivated a record that counts two
\* packets and has its key pushed, at a time after its FirstSeen.
C11_Witness ==
  /\ lastOp.op = "expireStaleHosts" /\ lastOp.err = "nil"
  /\ lastOp.threshold = 0 /\ clock = 1
  /\ Has(MAC1) /\ ~Rec(MAC1).Active
  /\ Rec(MAC1).PacketCount = 2 /\ Rec(MAC1).LastSeen = 0
  /\ Rec(MAC1).SSHKeyPushed /\ Rec(MAC1).SSHKeyPushedAt = PtrTo(0)
  /\ ~Has(MAC2)

\* ---------------------------------------------------------------- C14
\* C14: VerifyHMAC(sig, data, secret) is true exactly when sig is
\* ComputeHMAC(data, secret); it is false when the data differs from the
\* signed data, when a bit of the signature was flipped, and when the
\* signature was truncated to fewer than 32 bytes.
C14_VerifyExactlyOwnSignature ==
  hm.phase = "verified" =>
    /\ hm.ok = (hm.sig = ComputeHMAC(hm.vdata, hm.vsecret))
    /\ hm.vdata # hm.data => ~hm.ok
    /\ hm.tamper \in {"flip-first", "flip-last"} => ~hm.ok
    /\ Len(hm.sig) < HMACSize => ~hm.ok

C14_Witness ==
  /\ hm.phase = "verified"
  /\ hm.tamper = "none"
  /\ hm.secret = <<"a", "z">>
  /\ hm.vsecret = hm.secret
  /\ hm.vdata = hm.data
  /\ Len(hm.sig) = HMACSize
  /\ hm.ok

\* ---------------------------------------------------------------- C15
\* C15 as stated: a signature made with one secret never verifies under a
\* different secret string.
C15_DifferentSecretFails ==
  (/\ hm.phase = "verified"
   /\ hm.tamper = "none"
   /\ hm.vdata = hm.data
   /\ hm.vsecret # hm.secret) => ~hm.ok

\* C15 amended: a signature made with one secret never verifies under a
\* secret that derives a different HMAC key (the decoded or raw bytes,
\* zero-padded to the block size).
C15_DifferentKeyFails ==
  (/\ hm.phase = "verified"
   /\ hm.tamper = "none"
   /\ hm.vdata = hm.data
   /\ PadKey(HMACKey(hm.vsecret)) # PadKey(HMACKey(hm.secret))) => ~hm.ok

C15_Witness ==
  /\ hm.phase = "verified"
  /\ hm.tamper = "none"
  /\ hm.vdata = hm.data
  /\ hm.secret = <<"a", "a">>
  /\ hm.vsecret = <<"a", "0">>
  /\ ~hm.ok

\* ---------------------------------------------------------------- C12
\* The five conditions of the claim, on the bytes of a datagram.
Acceptable(bytes, now) ==
  /\ Len(bytes) > HMACSize
  /\ LET rest == SubSeq(bytes, HMACSize + 1, Len(bytes))
     IN /\ SubSeq(bytes, 1, HMACSize) = ComputeHMAC(rest, SelfInfo.secret)
        /\ MsgpackUnmarshal(rest).ok
        /\ Abs(now - MsgpackUnmarshal(rest).payload.Timestamp) <= 60
        /\ MsgpackUnmarshal(rest).payload.MACAddress # SelfInfo.mac

\* C12: handlePacket hands a datagram to Upsert iff it is longer than 32
\* bytes, its first 32 bytes are the signature of the rest under the
\* shared secret, the rest decodes as an announce, its timestamp is within
\* 60 seconds of the receiver's clock, and its MAC is not the node's own.
C12_AcceptedIffAllChecksPass ==
  verdict.why # "none" =>
    /\ (verdict.why = "accepted") = Acceptable(verdict.d.bytes, verdict.now)
    /\ (verdict.why = "accepted") = (lastOp.op = "Upsert")

C12_Witness ==
  /\ verdict.why = "accepted"
  /\ verdict.now - verdict.payload.Timestamp = 60
  /\ lastOp.op = "Upsert" /\ lastOp.err = "nil"
  /\ Has(MAC2)

\* ---------------------------------------------------------------- C13
C13_Step ==
  (verdict'.why # "none" /\ ~Acceptable(verdict'.d.bytes, verdict'.now)) =>
    /\ db' = db
    /\ upserts' = upserts
    /\ StoreGetAll(db', FALSE) = StoreGetAll(db, FALSE)

\* C13: a datagram that fails any of the checks never reaches the
\* registry: the step that handles it leaves the bucket, and so the
\* result of GetAll, as it was.
C13_RejectedLeavesRegistry == [][C13_Step]_vars

C13_Witness ==
  /\ verdict.why = "hmac"
  /\ lastOp.op = "handlePacket"
  /\ Has(MAC2)
  /\ Rec(MAC2).PacketCount = 1

\* ---------------------------------------------------------------- C16
\* C16: the node never registers itself: no record is keyed by its own
\* MAC and no Upsert for it ever succeeds, although it receives its own
\* broadcasts.
C16_NeverRegistersSelf ==
  /\ ~Has(SelfInfo.mac)
  /\ upserts[SelfInfo.mac] = 0
  /\ \A i \in 1..Len(StoreGetAll(db, FALSE).records) :
       StoreGetAll(db, FALSE).records[i].Beacon.MACAddress # SelfInfo.mac

C16_Witness ==
  /\ verdict.why = "self"
  /\ verdict.d.origin = "broadcast"
  /\ verdict.d.src = SelfInfo.ip
  /\ verdict.d.sent.MACAddress = SelfInfo.mac
  /\ ~Has(SelfInfo.mac)

\* ---------------------------------------------------------------- C17
\* C17 as stated: within one rate window at most 5 datagrams of one source
\* IP are handed to validation.
C17_AtMostFivePerWindow ==
  \A ip \in IPs : handed[ip] <= maxPacketsPerMin

\* ---------------------------------------------------------------- C18
\* The records of GetActive for one MAC.
ActiveFor(mac) ==
  SelectSeq(StoreGetActive(db, FALSE).records,
            LAMBDA r : r.Beacon.MACAddress = mac)

\* C18: a packet built by broadcast and delivered unmodified to a node
\* with the same secret, another MAC and a clock within 60 seconds is
\* accepted, decodes to the payload that was sent, and, once Upsert has
\* stored it for a MAC that had no record, GetActive has exactly one
\* record for that MAC, with PacketCount 1, Active, and that payload.
C18_BroadcastRoundTrip ==
  (/\ verdict.why # "none"
   /\ verdict.d.origin = "broadcast"
   /\ verdict.d.bytes = BuildPacket(verdict.d.sent, SelfInfo.secret)
   /\ verdict.d.sent.MACAddress # SelfInfo.mac
   /\ Abs(verdict.now - verdict.d.sent.Timestamp) <= 60) =>
    /\ verdict.why = "accepted"
    /\ verdict.payload = verdict.d.sent
    /\ (lastOp.err = "nil" /\ lastOp.before = "absent") =>
         /\ Len(ActiveFor(verdict.d.sent.MACAddress)) = 1
         /\ ActiveFor(verdict.d.sent.MACAddress)[1].PacketCount = 1
         /\ ActiveFor(verdict.d.sent.MACAddress)[1].Active
         /\ ActiveFor(verdict.d.sent.MACAddress)[1].Beacon = verdict.d.sent

C18_Witness ==
  /\ verdict.why = "accepted"
  /\ verdict.d.origin = "broadcast"
  /\ verdict.d.sent.MACAddress = MAC2
  /\ verdict.d.sent.Hostname = "host-c"
  /\ lastOp.op = "Upsert" /\ lastOp.err = "nil" /\ lastOp.before = "absent"
  /\ Len(ActiveFor(MAC2)) = 1
  /\ Rec(MAC2).PacketCount = 1

\* ---------------------------------------------------------------- C19
\* No goroutine is inside a call.
Quiescent == \A w \in Workers : pc[w] \in {"idle", "done"}

\* C19: no update is lost under concurrency.  Whenever no call is in
\* progress, the bucket is what the calls made so far give when run one
\* after the other in the order they took the lock; the record's
\* PacketCount is the number of Upserts that returned nil; and
\* SSHKeyPushed is true if MarkKeyPushed returned nil.
C19_NoLostUpdate ==
  Quiescent =>
    /\ db = shadow
    /\ upserts[MAC1] = 0 => ~Has(MAC1)
    /\ upserts[MAC1] > 0 =>
         Has(MAC1) /\ Rec(MAC1).PacketCount = upserts[MAC1]
    /\ outcome["rpc"] = "nil" => Rec(MAC1).SSHKeyPushed

C19_Witness ==
  /\ Quiescent
  /\ outcome["handler-1"] = "nil"
  /\ outcome["handler-2"] = "nil"
  /\ outcome["rpc"] = "nil"
  /\ outcome["expiry"] = "nil"
  /\ Rec(MAC1).PacketCount = 2
  /\ Rec(MAC1).SSHKeyPushed
  /\ ~Rec(MAC1).Active

\* ---------------------------------------------------------------- C20
\* C20 as stated: whenever Run has returned, the UDP socket bound by the
\* engine and the registry's store are both closed.
C20_ReleasedOnReturn ==
  run.pc = "returned" => ~run.connOpen /\ ~run.storeOpen

\* ---------------------------------------------------------------- C21
\* C21 as stated: when Run returns an error, no expiry sweep, no query
\* server, no receive or announce loop has been started or is left
\* running, and no query socket file is left behind.
C21_NoPartialStart ==
  (run.pc = "returned" /\ run.err # "nil") =>
    /\ ~run.expiry
    /\ ~run.rpcOpen
    /\ ~run.sockFile
    /\ run.engine # "running"

\* ---------------------------------------------------------------- C22
C22_Counts ==
  /\ ann.pc # "stopped"
  /\ ann.pc = "initial" => ann.attempts = 0 /\ ann.consumed = 0
  /\ ann.pc = "loop" => ann.attempts = ann.consumed + 1

\* C22: the announce duty makes one attempt on start and one per tick it
\* reads; no attempt, failed or not, ends the loop; every tick delivered
\* is followed by an attempt.
C22_AnnounceLoop ==
  /\ []C22_Counts
  /\ (ann.pc = "initial") ~> (ann.attempts > 0)
  /\ ann.tick ~> ~ann.tick

C22_Witness ==
  /\ ann.pc = "loop"
  /\ ann.failed > 0
  /\ ann.lastOk
  /\ ann.consumed > 1
  /\ sock # <<>>
  /\ Head(sock).origin = "broadcast"

\* ---------------------------------------------------------------- C23
\* C23: a record that is Active eventually becomes Inactive unless its
\* host announces again, and so it does once the host has stopped
\* announcing, with no datagram received at all: the sweep runs on its
\* own ticker.
C23_ExpiryIndependent ==
  \A m \in {MAC1, MAC2} :
    (Has(m) /\ Rec(m).Active) ~> (Has(m) /\ ~Rec(m).Active)

C23_Witness ==
  /\ lastOp.op = "expireStaleHosts" /\ lastOp.err = "nil"
  /\ Has(MAC1) /\ ~Rec(MAC1).Active
  /\ Rec(MAC1).PacketCount = 1
  /\ Rec(MAC1).LastSeen < clock
  /\ ~Has(MAC2)

\* ---------------------------------------------------------------- C24
\* The MACs of the records GetAll returns for a bucket.
MACsOf(bucket) ==
  {StoreGetAll(bucket, FALSE).records[i].Beacon.MACAddress :
     i \in 1..Len(StoreGetAll(bucket, FALSE).records)}

C24_Step ==
  /\ \A k \in Keys : HasIn(db, k) => HasIn(db', k)
  /\ MACsOf(db) \subseteq MACsOf(db')

\* C24: records are never deleted.  Whatever step is taken (Upsert,
\* MarkKeyPushed, sweep, read), every key present before it is present
\* after it, and every MAC GetAll returned before it GetAll returns after.
C24_NeverDeleted == [][C24_Step]_vars

C24_Witness ==
  /\ lastOp.op = "expireStaleHosts" /\ lastOp.err = "nil"
  /\ Has(MAC1) /\ ~Rec(MAC1).Active
  /\ Has(MAC2) /\ Rec(MAC2).Active
  /\ Rec(MAC1).SSHKeyPushed
  /\ MACsOf(db) = {MAC1, MAC2}

\* ---------------------------------------------------------------- C25
\* A string is valid hex: an even number of hex digits.
ValidHex(s) ==
  /\ Len(s) % 2 = 0
  /\ \A i \in 1..Len(s) : FromHexChar(s[i]) >= 0

\* The bytes a valid hex string stands for.
HexBytes(s) ==
  [i \in 1..(Len(s) \div 2) |->
     16 * FromHexChar(s[2 * i - 1]) + FromHexChar(s[2 * i])]

\* C25 as stated: the key is the decoded bytes when the whole secret is
\* valid hex, and the raw bytes of the whole secret otherwise.
C25_KeyIsHexOrRaw ==
  hm.phase = "keyed" =>
    hm.key = IF ValidHex(hm.secret) /\ Len(hm.secret) > 0
             THEN HexBytes(hm.secret)
             ELSE RawBytes(hm.secret)

C27_Step ==
  /\ tracker' # tracker =>
       IF intake.now > tracker.resetTime
       THEN /\ tracker'.resetTime = intake.now + Minute
            /\ \A ip \in IPs :
                 tracker'.counts[ip] = IF ip = intake'.src THEN 1 ELSE 0
       ELSE /\ tracker'.resetTime = tracker.resetTime
            /\ \A ip \in IPs : tracker'.counts[ip] >= tracker.counts[ip]
  /\ (\E ip \in IPs : tracker'.counts[ip] < tracker.counts[ip]) =>
       intake.now > tracker.resetTime

InTx(w) == pc[w] \in {"locked", "computed", "committed"}

C28_WritesExclusive ==
  /\ \A w \in Workers :
       InTx(w) => /\ \A v \in Workers \ {w} : ~InTx(v)
                  /\ ~ReadLocked
  /\ \A r \in Readers :
       (readers[r].pc = "read" /\ readers[r].err = "nil") =>
         /\ db = shadow
         /\ readers[r].records = StoreGetAll(db, FALSE).records

C28_Witness ==
  /\ \A r \in Readers :
       /\ readers[r].pc = "read"
       /\ readers[r].err = "nil"
       /\ Len(readers[r].records) > 0
  /\ \E w \in Writers : pc[w] = "done"
  /\ \E w \in Writers : pc[w] = "idle"

\* ---------------------------------------------------------------- C29
\* C29: a datagram waiting in the socket is always read and handed to a
\* handler of its own, however many earlier handlers are still waiting for
\* the registry lock; the read takes the datagram off the socket and adds
\* one handler, without waiting for any handler to end.
C29_HandOff ==
  sock' # sock /\ sock # <<>> =>
    /\ handler' = Append(handler, Head(sock))
    /\ sock' = Tail(sock)

C29_IntakeNeverWaits ==
  /\ (sock # <<>>) ~> (sock = <<>>)
  /\ [][C29_HandOff]_vars

C29_Witness ==
  /\ mu = "expiry"
  /\ Len(handler) >= 2
  /\ \A i \in 1..Len(handler) : ReachesUpsert(i)
  /\ lastOp.op = "listen"
  /\ sock = <<>>

\* ---------------------------------------------------------------- C30
\* C30: when the Upsert of a handler returns an error the handler ends
\* with the bucket and the hosts file as they were and nothing else
\* touched: the socket, the other handlers and the run state stay; and
\* after such an error a waiting datagram is still read, and an Upsert of
\* a later handler that meets no error of its own stores the record and
\* counts the packet.
C30_ErrorStep ==
  (lastOp'.op = "Upsert" /\ lastOp'.err # "nil" /\ handler' # handler) =>
    /\ hostsFile' = hostsFile
    /\ db' = db
    /\ upserts' = upserts
    /\ sock' = sock
    /\ Len(handler') = Len(handler) - 1
    /\ run' = run

C30_LaterUpsert ==
  (/\ upsertErrs > 0
   /\ lastOp'.op = "Upsert"
   /\ handler' # handler
   /\ upsertErrs' = upsertErrs) =>
    /\ lastOp'.err = "nil"
    /\ upserts'[lastOp'.mac] = upserts[lastOp'.mac] + 1
    /\ db' # db

C30_StorageErrorNotFatal ==
  /\ [][C30_ErrorStep /\ C30_LaterUpsert]_vars
  /\ (upsertErrs > 0 /\ sock # <<>>) ~> (sock = <<>>)

C30_Witness ==
  /\ upsertErrs > 0
  /\ lastOp.op = "Upsert"
  /\ lastOp.err = "nil"
  /\ lastOp.mac = MAC2
  /\ verdict.why = "accepted"
  /\ hostsFile.managed

\* ---------------------------------------------------------------- C31
\* C31: for every IPv4 CIDR the announce target is the network address
\* with every host bit set: in each byte the bits of the prefix are those
\* of the address and the bits after the prefix are ones; for
\* 10.51.240.0/23 the target is 10.51.241.255.
HostBits(ones, i) ==
  LET n == ones - 8 * (i - 1)
  IN IF n >= 8 THEN 0 ELSE IF n <= 0 THEN 8 ELSE 8 - n

C31_BroadcastTarget ==
  bc.phase = "done" =>
    /\ \A i \in 1..4 :
         LET h == TwoTo(HostBits(bc.ones, i))
         IN bc.target[i] = (bc.ip[i] \div h) * h + (h - 1)
    /\ (bc.ip = <<10, 51, 240, 0>> /\ bc.ones = 23) =>
         bc.target = <<10, 51, 241, 255>>

C31_Witness ==
  /\ bc.phase = "done"
  /\ bc.ip = <<10, 51, 240, 0>>
  /\ bc.ones = 23
  /\ bc.target = <<10, 51, 241, 255>>

\* ---------------------------------------------------------------- C32
\* C32 as stated: right after a Sync has written the file, the managed
\* section holds the lines of exactly the records, among those the Sync
\* read, that are Active (and have a hostname and an IP address).
C32_ListsExactlyActive ==
  \A h \in Syncers :
    (/\ lastOp.op = "hosts.Sync"
     /\ lastOp.err = "nil"
     /\ lastOp.mac = SyncPayload(h).MACAddress) =>
      hostsFile.entries =
        ManagedLines(SelectSeq(syncers[h].records, KeepActive), 1)

\* ---------------------------------------------------------------- C33
\* C33 as stated: once every handler has finished its Sync, the managed
\* section lists every host of the registry as it then is.
C33_FileFollowsRegistry ==
  (\A h \in Syncers : syncers[h].pc = "done") =>
    hostsFile.entries = ManagedLines(StoreGetAll(db, FALSE).records, 1)

\* ---------------------------------------------------------------- C34
\* C34: the handler of a byte-identical copy of an accepted datagram,
\* delivered while the timestamp is at most 60 s from the node's clock,
\* accepts it and upserts once more: PacketCount grows by one, LastSeen is
\* the time of the delivery and the record is Active.
C34_Step ==
  (/\ handler # <<>>
   /\ handler' = <<>>
   /\ handler[1].origin = "replay"
   /\ Abs(clock - handler[1].sent.Timestamp) <= 60) =>
    LET mac == handler[1].sent.MACAddress
    IN /\ verdict'.why = "accepted"
       /\ HasIn(db, mac)
       /\ HasIn(db', mac)
       /\ RecIn(db', mac).PacketCount = RecIn(db, mac).PacketCount + 1
       /\ RecIn(db', mac).LastSeen = clock
       /\ RecIn(db', mac).Active

C34_ReplayAccepted == [][C34_Step]_vars

C34_Witness ==
  /\ verdict.why = "accepted"
  /\ verdict.d.origin = "replay"
  /\ lastOp.op = "Upsert"
  /\ lastOp.err = "nil"
  /\ lastOp.before = "inactive"
  /\ Rec(MAC2).PacketCount >= 2
  /\ Rec(MAC2).Active
  /\ Rec(MAC2).LastSeen > Rec(MAC2).FirstSeen

\* ---------------------------------------------------------------- C35
\* C35: in every interleaving of Upserts, MarkKeyPushed and sweeps, no
\* step lowers the LastSeen of a record, FirstSeen <= LastSeen holds for
\* every record, and when a sweep's transaction runs its current time is
\* not earlier than the LastSeen of any record in the bucket.
C35_Step ==
  /\ \A m \in MACs :
       (HasIn(db, m) /\ HasIn(db', m)) =>
         RecIn(db', m).LastSeen >= RecIn(db, m).LastSeen
  /\ (pc["expiry"] = "locked" /\ pc'["expiry"] = "computed") =>
       \A m \in MACs : HasIn(db, m) => clock >= RecIn(db, m).LastSeen

C35_Ordered ==
  \A m \in MACs : Has(m) => Rec(m).FirstSeen <= Rec(m).LastSeen

C35_TimestampsInOrder == [][C35_Step]_vars /\ []C35_Ordered

C35_Witness ==
  /\ Has(MAC1)
  /\ Rec(MAC1).PacketCount = 2
  /\ Rec(MAC1).FirstSeen < Rec(MAC1).LastSeen
  /\ pc["expiry"] = "computed"
  /\ clock > Rec(MAC1).FirstSeen

\* ---------------------------------------------------------------- C36
\* C36: a MarkKeyPushed call leaves every other entry of the bucket as it
\* was; when it fails it leaves the whole bucket; when it succeeds the
\* record it names differs from the one before in SSHKeyPushed and
\* SSHKeyPushedAt at most: Active, LastSeen, FirstSeen, PacketCount and
\* the beacon are the same.
C36_Step ==
  lastOp'.op = "MarkKeyPushed" =>
    LET mac == lastOp'.mac
    IN /\ \A k \in Keys \ {mac} : db'[k] = db[k]
       /\ lastOp'.err # "nil" => db' = db
       /\ lastOp'.err = "nil" =>
            /\ HasIn(db, mac) /\ HasIn(db', mac)
            /\ LET old == RecIn(db, mac)
                   new == RecIn(db', mac)
               IN /\ new.Active = old.Active
                  /\ new.LastSeen = old.LastSeen
                  /\ new.FirstSeen = old.FirstSeen
                  /\ new.PacketCount = old.PacketCount
                  /\ new.Beacon = old.Beacon
                  /\ [new EXCEPT !.SSHKeyPushed = old.SSHKeyPushed,
                                 !.SSHKeyPushedAt = old.SSHKeyPushedAt] = old

C36_MarkKeyPushedFrame == [][C36_Step]_vars

C36_Witness ==
  /\ lastOp.op = "MarkKeyPushed" /\ lastOp.err = "nil" /\ lastOp.mac = MAC1
  /\ lastOp.before = "inactive"
  /\ ~Rec(MAC1).Active /\ Rec(MAC1).SSHKeyPushed
  /\ Rec(MAC1).SSHKeyPushedAt = PtrTo(1) /\ Rec(MAC1).LastSeen = 0
  /\ Has(MAC2) /\ ~Rec(MAC2).SSHKeyPushed

\* ---------------------------------------------------------------- C37
\* C37: in every state a record has SSHKeyPushed true exactly when its
\* SSHKeyPushedAt is not null, and an Upsert or an expiry sweep leaves
\* both fields of every record as they were.
C37_FlagIffTimestamp ==
  \A k \in Keys :
    Has(k) => (Rec(k).SSHKeyPushed <=> Rec(k).SSHKeyPushedAt # NilTime)

C37_Step ==
  lastOp'.op \in {"Upsert", "expireStaleHosts"} =>
    \A k \in Keys :
      HasIn(db, k) =>
        /\ HasIn(db', k)
        /\ RecIn(db', k).SSHKeyPushed = RecIn(db, k).SSHKeyPushed
        /\ RecIn(db', k).SSHKeyPushedAt = RecIn(db, k).SSHKeyPushedAt

C37_KeyPushedConsistent == []C37_FlagIffTimestamp /\ [][C37_Step]_vars

C37_Witness ==
  /\ lastOp.op = "expireStaleHosts" /\ lastOp.err = "nil"
  /\ clock = 1
  /\ Has(MAC1) /\ ~Rec(MAC1).Active /\ Rec(MAC1).PacketCount >= 2
  /\ Rec(MAC1).SSHKeyPushed /\ Rec(MAC1).SSHKeyPushedAt = PtrTo(0)
  /\ Has(MAC2) /\ ~Rec(MAC2).SSHKeyPushed
  /\ Rec(MAC2).SSHKeyPushedAt = NilTime

\* ---------------------------------------------------------------- C38
\* C38: a read of the receive loop leaves the packet of every handler
\* still running as it was and gives the new handler the bytes of the
\* datagram just read; the packet a handler verifies and decodes is the
\* one it was started with, and what it upserts is the payload its
\* datagram was built from.
C38_Step ==
  /\ Len(handler') > Len(handler) =>
       /\ SubSeq(handler', 1, Len(handler)) = handler
       /\ handler'[Len(handler')].bytes = Head(sock).bytes
  /\ Len(handler') < Len(handler) =>
       /\ \E i \in 1..Len(handler) : verdict'.d = handler[i]
       /\ verdict'.d.origin = "broadcast" =>
            /\ verdict'.d.bytes = BuildPacket(verdict'.d.sent, NodeSecret)
            /\ verdict'.why = "accepted"
            /\ verdict'.payload = verdict'.d.sent
            /\ RecIn(db', verdict'.d.sent.MACAddress).Beacon = verdict'.d.sent

C38_OwnCopy == [][C38_Step]_vars

C38_Witness ==
  /\ verdict.why = "accepted"
  /\ lastOp.op = "Upsert" /\ lastOp.err = "nil"
  /\ Len(handler) >= 1
  /\ Len(buf) >= Len(verdict.d.bytes)
  /\ SubSeq(buf, 1, Len(verdict.d.bytes)) # verdict.d.bytes
  /\ Rec(MAC2).Beacon = verdict.d.sent

\* ---------------------------------------------------------------- C39
\* C39: a datagram longer than maxPacketSize (its encoded payload longer
\* than maxPacketSize less the signature) reaches its handler cut to
\* maxPacketSize bytes, fails the signature check although it was signed
\* with the shared secret, and changes nothing in the registry; a datagram
\* of maxPacketSize bytes or fewer from the same peer is accepted.
C39_Step ==
  /\ (Len(handler') > Len(handler)
        /\ Len(Head(sock).bytes) > maxPacketSize) =>
       /\ Len(handler'[Len(handler')].bytes) = maxPacketSize
       /\ handler'[Len(handler')].bytes
            = SubSeq(Head(sock).bytes, 1, maxPacketSize)
  /\ (Len(handler') < Len(handler)
        /\ Len(MsgpackMarshal(verdict'.d.sent)) > maxPacketSize - HMACSize) =>
       /\ verdict'.d.sent.CPUModel > FitsBuffer
       /\ verdict'.why = "hmac"
       /\ db' = db
       /\ upserts' = upserts
  /\ (Len(handler') < Len(handler)
        /\ Len(MsgpackMarshal(verdict'.d.sent)) <= maxPacketSize - HMACSize) =>
       /\ verdict'.d.sent.CPUModel <= FitsBuffer
       /\ verdict'.why = "accepted"

C39_TooLongNeverUpserted == [][C39_Step]_vars

C39_Witness ==
  /\ verdict.why = "hmac"
  /\ verdict.d.origin = "broadcast"
  /\ verdict.d.sent.CPUModel = FitsBuffer + 1
  /\ Len(verdict.d.bytes) = maxPacketSize
  /\ Has(MAC2)
  /\ Rec(MAC2).Beacon.CPUModel = FitsBuffer
====
